---- MODULE Spec2Model ----
(***************************************************************************)
(* Prior-authorization rule pipeline and evaluation engine of elara-pa.    *)
(*                                                                         *)
(* Confidence values are held in hundredths (0.85 is 85, 1.0 is 100).      *)
(* Python lists are sequences, so that duplicates and order are visible.   *)
(* An absent Optional number is NONE; an absent Optional string is "".     *)
(***************************************************************************)
EXTENDS Integers, Sequences, FiniteSets, TLC

VARIABLES
    use_enhanced_parser,        \* DualParserLoader.use_enhanced_parser
    enable_enhanced_evaluation, \* DualParserLoader.enable_enhanced_evaluation
    loaded_rules,               \* main.loaded_rules, aliased by dual_loader.loaded_rules
    request,                    \* the last evaluation request
    response,                   \* the last response of an endpoint
    rule,                       \* the rule under EnhancedRule.evaluate_authorization
    rules_in,                   \* the argument of merge_related_rules
    rules_out,                  \* the value returned by merge_related_rules / a parser
    markdown_text,              \* the text handed to a parser, as a token sequence
    processed_chunks,           \* the chunks made by BasicIntelligentChunker.preprocess_markdown
    stdout,                     \* what the chunk parser has printed, one entry per line
    heap,                       \* the list objects that hold rules, by identity
    refs,                       \* the list object each of the two names refers to
    pc                          \* the operation that produced the current state

vars == <<use_enhanced_parser, enable_enhanced_evaluation, loaded_rules, request,
          response, rule, rules_in, rules_out, markdown_text, processed_chunks,
          stdout, heap, refs, pc>>

----------------------------------------------------------------------------
(* Values *)

NONE == -1

REQUIRED == "required"
NOT_REQUIRED == "not_required"
CONDITIONAL == "conditional"
NOTIFICATION_ONLY == "notification_only"

AuthRequirement == {REQUIRED, NOT_REQUIRED, CONDITIONAL, NOTIFICATION_ONLY}

Range(s) == {s[i] : i \in 1..Len(s)}

\* Python's "x in list"
InList(x, s) == \E i \in 1..Len(s) : s[i] = x

\* the two lists that exist when the modules are imported: main.loaded_rules = []
\* and the loader's self.loaded_rules = []
ModuleLists == <<<<>>, <<>>>>
ModuleRefs == [main |-> 1, loader |-> 2]

NoResponse == [status |-> "none"]

\* A basic Rule: the EnhancedRule fields are absent, which is the same to every
\* reader of them as their default, the empty list.
BasicRule(auth, category, service, cpts, icds, excl, incl, conf) ==
    [kind |-> "Rule", auth_requirement |-> auth, payer |-> "UnitedHealthcare",
     category |-> category, service |-> service,
     cpt_codes |-> cpts, icd_codes |-> icds,
     excluded_states |-> excl, included_states |-> incl,
     place_of_service_restrictions |-> <<>>, diagnosis_exceptions |-> <<>>,
     age_restrictions |-> <<>>, conditional_logic |-> <<>>,
     confidence_score |-> conf]

\* EnhancedRule.from_basic_rule: model_dump, drop age_restrictions and
\* quantity_limits, rebuild as EnhancedRule.
from_basic_rule(r) ==
    [r EXCEPT !.kind = "EnhancedRule", !.age_restrictions = <<>>]

----------------------------------------------------------------------------
(* EnhancedRule.evaluate_authorization *)

Evaluation(auth_required, reason, detail, confidence) ==
    [auth_required |-> auth_required, reason |-> reason, detail |-> detail,
     confidence |-> confidence]

\* if patient_state and patient_state in self.excluded_states
GeographicExclusionApplies(r, q) ==
    q.patient_state # "" /\ InList(q.patient_state, r.excluded_states)

\* any(dx in diagnosis_codes for dx in dx_exception.icd_codes) and EXEMPT
ExceptionExempts(e, q) ==
    /\ \E i \in 1..Len(e.icd_codes) : e.icd_codes[i] \in q.diagnosis_codes
    /\ e.exception_type = "EXEMPT"

DiagnosisExemptionApplies(r, q) ==
    \E i \in 1..Len(r.diagnosis_exceptions) : ExceptionExempts(r.diagnosis_exceptions[i], q)

\* indices of the place-of-service entries matching the query
PosMatches(r, q) ==
    IF q.place_of_service = "" THEN {}
    ELSE {i \in 1..Len(r.place_of_service_restrictions) :
            r.place_of_service_restrictions[i].pos_code = q.place_of_service}

AgeInBounds(a, age) ==
    /\ (a.min_age = NONE \/ age >= a.min_age)
    /\ (a.max_age = NONE \/ age <= a.max_age)

\* indices of the age restrictions whose bounds hold the query age
AgeMatches(r, q) ==
    IF q.patient_age = NONE THEN {}
    ELSE {i \in 1..Len(r.age_restrictions) : AgeInBounds(r.age_restrictions[i], q.patient_age)}

Min(S) == CHOOSE x \in S : \A y \in S : x <= y

\* self.confidence_score or 0.7
BaseConfidence(r) ==
    IF r.confidence_score = NONE \/ r.confidence_score = 0 THEN 70 ELSE r.confidence_score

BaseEvaluation(r) ==
    Evaluation(r.auth_requirement = REQUIRED, "Base rule", "", BaseConfidence(r))

\* The mutant of evaluate_authorization that tests place of service before the
\* diagnosis exceptions.
evaluate_authorization_pos_first(r, q) ==
    IF GeographicExclusionApplies(r, q)
    THEN Evaluation(FALSE, "Geographic exclusion", q.patient_state, 100)
    ELSE IF PosMatches(r, q) # {}
    THEN Evaluation(r.place_of_service_restrictions[Min(PosMatches(r, q))].requires_auth,
                    "Place of service rule", "", 90)
    ELSE IF DiagnosisExemptionApplies(r, q)
    THEN Evaluation(FALSE, "Diagnosis exception", "", 90)
    ELSE IF AgeMatches(r, q) # {}
    THEN Evaluation(r.age_restrictions[Min(AgeMatches(r, q))].auth_requirement = REQUIRED,
                    "Age-based rule", "", 80)
    ELSE BaseEvaluation(r)

\* The mutant of evaluate_authorization whose age step matches every restriction.
evaluate_authorization_age_always(r, q) ==
    IF GeographicExclusionApplies(r, q)
    THEN Evaluation(FALSE, "Geographic exclusion", q.patient_state, 100)
    ELSE IF DiagnosisExemptionApplies(r, q)
    THEN Evaluation(FALSE, "Diagnosis exception", "", 90)
    ELSE IF PosMatches(r, q) # {}
    THEN Evaluation(r.place_of_service_restrictions[Min(PosMatches(r, q))].requires_auth,
                    "Place of service rule", "", 90)
    ELSE IF q.patient_age # NONE /\ Len(r.age_restrictions) > 0
    THEN Evaluation(r.age_restrictions[1].auth_requirement = REQUIRED,
                    "Age-based rule", "", 80)
    ELSE BaseEvaluation(r)

evaluate_authorization(r, q) ==
    IF GeographicExclusionApplies(r, q)
    THEN Evaluation(FALSE, "Geographic exclusion", q.patient_state, 100)
    ELSE IF DiagnosisExemptionApplies(r, q)
    THEN Evaluation(FALSE, "Diagnosis exception", "", 90)
    ELSE IF PosMatches(r, q) # {}
    THEN Evaluation(r.place_of_service_restrictions[Min(PosMatches(r, q))].requires_auth,
                    "Place of service rule", "", 90)
    ELSE IF AgeMatches(r, q) # {}
    THEN Evaluation(r.age_restrictions[Min(AgeMatches(r, q))].auth_requirement = REQUIRED,
                    "Age-based rule", "", 80)
    ELSE BaseEvaluation(r)

----------------------------------------------------------------------------
(* Inputs of the single-rule evaluation *)

DiagnosisExceptionLists ==
    {<<>>,
     <<[icd_codes |-> <<"C50.011">>, exception_type |-> "EXEMPT"]>>,
     <<[icd_codes |-> <<"C50.011">>, exception_type |-> "REQUIRED"]>>}

PlaceOfServiceLists ==
    {<<>>,
     <<[pos_code |-> "11", requires_auth |-> FALSE]>>,
     <<[pos_code |-> "22", requires_auth |-> TRUE]>>}

AgeRestrictionLists ==
    {<<>>,
     <<[min_age |-> 18, max_age |-> NONE, auth_requirement |-> REQUIRED]>>,
     <<[min_age |-> NONE, max_age |-> 17, auth_requirement |-> CONDITIONAL],
       [min_age |-> 18, max_age |-> NONE, auth_requirement |-> REQUIRED]>>}

EnhancedRules ==
    {[BasicRule(auth, "", "Extracted Rule", <<"12345">>, <<>>, excl, <<>>, conf)
        EXCEPT !.kind = "EnhancedRule",
               !.diagnosis_exceptions = dx,
               !.place_of_service_restrictions = pos,
               !.age_restrictions = age] :
        auth \in AuthRequirement, excl \in {<<>>, <<"TX">>},
        conf \in {NONE, 0, 85}, dx \in DiagnosisExceptionLists,
        pos \in PlaceOfServiceLists, age \in AgeRestrictionLists}

Query(cpts, dx, age, state, pos) ==
    [cpt_codes |-> cpts, diagnosis_codes |-> dx, patient_age |-> age,
     patient_state |-> state, place_of_service |-> pos]

NoRequest == Query(<<>>, {}, NONE, "", "")

Contexts ==
    {Query(<<"12345">>, dx, age, state, pos) :
        dx \in {{}, {"C50.011"}}, age \in {NONE, 10, 25},
        state \in {"", "TX", "CA"}, pos \in {"", "11", "22"}}

NoRule == BasicRule(NOT_REQUIRED, "", "", <<>>, <<>>, <<>>, <<>>, NONE)

----------------------------------------------------------------------------
(* SpecRule: EnhancedRule.evaluate_authorization on one rule and one context *)

InitRule ==
    /\ use_enhanced_parser = TRUE
    /\ enable_enhanced_evaluation = TRUE
    /\ loaded_rules = <<>>
    /\ request \in Contexts
    /\ response = NoResponse
    /\ rule \in EnhancedRules
    /\ rules_in = <<>>
    /\ rules_out = <<>>
    /\ markdown_text = <<>>
    /\ processed_chunks = <<>>
    /\ stdout = <<>>
    /\ heap = ModuleLists
    /\ refs = ModuleRefs
    /\ pc = "start"

RuleEvaluate ==
    /\ pc = "start"
    /\ response' = [status |-> "ok", evaluation |-> evaluate_authorization(rule, request)]
    /\ pc' = "evaluated"
    /\ UNCHANGED <<use_enhanced_parser, enable_enhanced_evaluation, loaded_rules,
                   request, rule, rules_in, rules_out, markdown_text,
                   processed_chunks, stdout, heap, refs>>

NextRule == RuleEvaluate

SpecRule == InitRule /\ [][NextRule]_vars

\* C2: the outcome of evaluate_authorization is that of the first qualifier that
\* applies, in the order geographic exclusion (not required, 1.0), diagnosis
\* exemption of type EXEMPT (not required, 0.9), place-of-service entry (its
\* requires_auth, 0.9), age restriction (whether it is REQUIRED, 0.8), base rule.
C2_FirstApplicableQualifierDecides ==
    pc = "evaluated" =>
        LET e == response.evaluation
            geo == request.patient_state # "" /\ request.patient_state \in Range(rule.excluded_states)
            dx == \E x \in Range(rule.diagnosis_exceptions) :
                      /\ x.exception_type = "EXEMPT"
                      /\ Range(x.icd_codes) \cap request.diagnosis_codes # {}
            posEntries == {x \in Range(rule.place_of_service_restrictions) :
                              request.place_of_service # "" /\ x.pos_code = request.place_of_service}
            ageIdx == {i \in 1..Len(rule.age_restrictions) :
                          /\ request.patient_age # NONE
                          /\ rule.age_restrictions[i].min_age # NONE => request.patient_age >= rule.age_restrictions[i].min_age
                          /\ rule.age_restrictions[i].max_age # NONE => request.patient_age <= rule.age_restrictions[i].max_age}
        IN  /\ geo => (~e.auth_required /\ e.confidence = 100 /\ e.reason = "Geographic exclusion")
            /\ (~geo /\ dx) => (~e.auth_required /\ e.confidence = 90 /\ e.reason = "Diagnosis exception")
            /\ (~geo /\ ~dx /\ posEntries # {}) =>
                   /\ e.confidence = 90 /\ e.reason = "Place of service rule"
                   /\ \E x \in posEntries : e.auth_required = x.requires_auth
            /\ (~geo /\ ~dx /\ posEntries = {} /\ ageIdx # {}) =>
                   /\ e.confidence = 80 /\ e.reason = "Age-based rule"
                   /\ e.auth_required =
                        (rule.age_restrictions[Min(ageIdx)].auth_requirement = REQUIRED)
            /\ (~geo /\ ~dx /\ posEntries = {} /\ ageIdx = {}) => e.reason = "Base rule"

\* a place-of-service entry and an exempting diagnosis both apply, and an age
\* restriction too: the exemption decided
C2_Witness ==
    /\ pc = "evaluated"
    /\ ~GeographicExclusionApplies(rule, request)
    /\ DiagnosisExemptionApplies(rule, request)
    /\ PosMatches(rule, request) # {}
    /\ rule.place_of_service_restrictions[1].requires_auth
    /\ AgeMatches(rule, request) # {}
    /\ response.evaluation.reason = "Diagnosis exception"

\* C6: a query age outside the bounds of every age restriction, with no earlier
\* qualifier applying, yields the rule's own base requirement.
C6_AgeOutsideBoundsFallsToBase ==
    (/\ pc = "evaluated"
     /\ request.patient_age # NONE
     /\ Len(rule.age_restrictions) > 0
     /\ \A i \in 1..Len(rule.age_restrictions) :
            \/ (rule.age_restrictions[i].min_age # NONE /\ request.patient_age < rule.age_restrictions[i].min_age)
            \/ (rule.age_restrictions[i].max_age # NONE /\ request.patient_age > rule.age_restrictions[i].max_age)
     /\ ~(request.patient_state \in Range(rule.excluded_states))
     /\ ~DiagnosisExemptionApplies(rule, request)
     /\ PosMatches(rule, request) = {})
    => /\ response.evaluation.reason = "Base rule"
       /\ response.evaluation.auth_required = (rule.auth_requirement = REQUIRED)

\* restriction min_age 18, query age 10
C6_Witness ==
    /\ pc = "evaluated"
    /\ Len(rule.age_restrictions) = 1
    /\ rule.age_restrictions[1].min_age = 18
    /\ request.patient_age = 10
    /\ rule.auth_requirement = CONDITIONAL
    /\ response.evaluation.reason = "Base rule"
    /\ ~response.evaluation.auth_required

----------------------------------------------------------------------------
(* The service: rule loading, uploads and the evaluation paths *)

MaxRules == 2

RECURSIVE SubSeqAt(_, _)
\* the elements of s at the indices idx, in the order of s (a list comprehension)
SubSeqAt(s, idx) ==
    IF idx = {} THEN <<>>
    ELSE LET i == Min(idx) IN <<s[i]>> \o SubSeqAt(s, idx \ {i})

\* Python's max(list, key=confidence): the first element of greatest confidence
FirstMaxConfidence(evals) ==
    evals[Min({i \in 1..Len(evals) :
                 \A j \in 1..Len(evals) : evals[j].confidence <= evals[i].confidence})]

Response(endpoint, auth_required, auth_requirement, confidence, reason, method, path) ==
    [status |-> "ok", endpoint |-> endpoint, auth_required |-> auth_required,
     auth_requirement |-> auth_requirement, confidence |-> confidence,
     reason |-> reason, method |-> method, reasoning_path |-> path]

\* an exception leaving the operation
Raised(endpoint) ==
    [status |-> "error", endpoint |-> endpoint, auth_required |-> FALSE,
     auth_requirement |-> "", confidence |-> NONE, reason |-> "", method |-> "",
     reasoning_path |-> <<>>]

\* any(cpt in rule.cpt_codes for cpt in cpt_codes)
CptMatch(r, cpt_codes) == \E i \in 1..Len(cpt_codes) : InList(cpt_codes[i], r.cpt_codes)

\* the token the line parser makes of the range 12345-12349, and the codes from
\* 12345 to 12349 that the requests name
RANGE_12345_12349 == "RANGE_12345_12349"

CodesBetween(token) ==
    IF token = RANGE_12345_12349 THEN {"12345", "12347", "12349"} ELSE {}

\* the mutant of Applicable that lets a range token stand for the codes between
\* its ends
Applicable_expanding_ranges(rules, cpt_codes) ==
    SubSeqAt(rules, {i \in 1..Len(rules) :
                        \/ CptMatch(rules[i], cpt_codes)
                        \/ \E k \in 1..Len(rules[i].cpt_codes) :
                               Range(cpt_codes) \cap CodesBetween(rules[i].cpt_codes[k]) # {}})

\* the mutant of Applicable that drops no rule
Applicable_all(rules, cpt_codes) == rules

\* applicable_rules of DualParserLoader.evaluate_authorization
Applicable(rules, cpt_codes) ==
    SubSeqAt(rules, {i \in 1..Len(rules) : CptMatch(rules[i], cpt_codes)})

\* the mutant of Aggregate that takes the best of all evaluations
Aggregate_best_of_all(evals) == FirstMaxConfidence(evals)

\* "If any rule requires auth, auth is required": the evaluation that supplies the
\* decision, its reason and its confidence
Aggregate(evals) ==
    LET required == SubSeqAt(evals, {i \in 1..Len(evals) : evals[i].auth_required})
    IN  IF Len(required) > 0 THEN FirstMaxConfidence(required)
        ELSE FirstMaxConfidence(evals)

_enhanced_evaluation(rules, q) ==
    IF \E i \in 1..Len(rules) : rules[i].kind # "EnhancedRule"
    THEN Raised("dual_loader")   \* a basic Rule has no evaluate_authorization
    ELSE LET evals == [i \in 1..Len(rules) |-> evaluate_authorization(rules[i], q)]
             best == Aggregate(evals)
         IN  Response("dual_loader", best.auth_required, "", best.confidence,
                      best.reason, "enhanced", <<>>)

_basic_evaluation(rules, q) ==
    LET requires_auth == \E i \in 1..Len(rules) : rules[i].auth_requirement = REQUIRED
    IN  Response("dual_loader", requires_auth, "", IF Len(rules) > 0 THEN 80 ELSE 30,
                 IF requires_auth THEN "Basic rule match" ELSE "No authorization required",
                 "basic", <<>>)

DualEvaluate(rules, enhanced_evaluation, q) ==
    LET applicable_rules == Applicable(rules, q.cpt_codes)
    IN  IF Len(applicable_rules) = 0
        THEN Response("dual_loader", FALSE, "", 50, "No applicable rules found", "none", <<>>)
        ELSE IF enhanced_evaluation /\ applicable_rules[1].kind = "EnhancedRule"
        THEN _enhanced_evaluation(applicable_rules, q)
        ELSE _basic_evaluation(applicable_rules, q)

\* main.evaluate_authorization, the /authorization/evaluate endpoint
BasicEndpoint(rules, q) ==
    LET matching == {i \in 1..Len(rules) : CptMatch(rules[i], q.cpt_codes)}
        excluded == {i \in matching : GeographicExclusionApplies(rules[i], q)}
        applicable_rules == SubSeqAt(rules, matching \ excluded)
        path == [i \in 1..Cardinality(matching) |->
                    IF SubSeqAt([k \in 1..Len(rules) |-> k], matching)[i] \in excluded
                    THEN "Rule excluded for state"
                    ELSE "Found applicable rule"]
        requires_auth == \E i \in 1..Len(applicable_rules) :
                             applicable_rules[i].auth_requirement = REQUIRED
    IN  IF Len(applicable_rules) = 0
        THEN Response("evaluate", FALSE, NOT_REQUIRED, 30, "No matching rules found",
                      "basic", path \o <<"No matching rules found">>)
        ELSE Response("evaluate", requires_auth,
                      IF requires_auth THEN REQUIRED ELSE NOT_REQUIRED, 80,
                      "Final decision", "basic", path \o <<"Final decision">>)

RECURSIVE EvaluationDetails(_, _, _)
\* evaluation_details of evaluate_authorization_enhanced: for each request code in
\* turn, the evaluation of each rule holding it
EvaluationDetails(rules, q, k) ==
    IF k > Len(q.cpt_codes) THEN <<>>
    ELSE LET matching_rules == SubSeqAt(rules, {i \in 1..Len(rules) :
                                                   InList(q.cpt_codes[k], rules[i].cpt_codes)})
         IN  [i \in 1..Len(matching_rules) |->
                 evaluate_authorization(from_basic_rule(matching_rules[i]), q)]
             \o EvaluationDetails(rules, q, k + 1)

\* main.evaluate_authorization_enhanced, the /authorization/evaluate-enhanced endpoint
EnhancedEndpoint(rules, q) ==
    LET evaluation_details == EvaluationDetails(rules, q, 1)
        path == [i \in 1..Len(evaluation_details) |-> evaluation_details[i].reason]
    IN  IF Len(evaluation_details) = 0
        THEN Response("evaluate_enhanced", FALSE, NOT_REQUIRED, 30,
                      "No applicable rules found", "enhanced", <<"No applicable rules found">>)
        ELSE LET best == Aggregate(evaluation_details)
             IN  Response("evaluate_enhanced", best.auth_required,
                          IF best.auth_required THEN REQUIRED ELSE NOT_REQUIRED,
                          best.confidence, best.reason, "enhanced",
                          path \o <<"Final decision">>)

\* main.evaluate_authorization_smart, the /authorization/evaluate-smart endpoint:
\* the loader's answer, read key by key. The answer for no applicable rule has
\* no 'rules_evaluated' key, so reading it raises and the handler answers 500.
SmartEndpoint(rules, enhanced_evaluation, q) ==
    LET evaluation_result == DualEvaluate(rules, enhanced_evaluation, q)
    IN  IF evaluation_result.status = "error" \/ evaluation_result.method = "none"
        THEN Raised("evaluate_smart")
        ELSE [evaluation_result EXCEPT !.endpoint = "evaluate_smart"]

(* Rules a processed-rules file or a parser can hold. The basic parser scores a
   rule 0.8, the enhanced parser 0.85. *)
ServiceRules(kind) ==
    {[BasicRule(auth, "", "Extracted Rule", cpts, <<>>, excl, <<>>,
                IF kind = "Rule" THEN 80 ELSE 85)
        EXCEPT !.kind = kind] :
        auth \in {REQUIRED, CONDITIONAL},
        cpts \in {<<"12345">>, <<"29826">>},
        excl \in {<<>>, <<"TX">>}}

Requests ==
    {Query(cpts, {}, NONE, state, "") :
        cpts \in {<<>>, <<"12345">>, <<"99999">>, <<"29826", "12345">>},
        state \in {"", "TX"}}

Init ==
    /\ use_enhanced_parser \in BOOLEAN
    /\ enable_enhanced_evaluation \in BOOLEAN
    /\ loaded_rules = <<>>
    /\ request = NoRequest
    /\ response = NoResponse
    /\ rule = NoRule
    /\ rules_in = <<>>
    /\ rules_out = <<>>
    /\ markdown_text = <<>>
    /\ processed_chunks = <<>>
    /\ stdout = <<>>
    /\ heap = ModuleLists
    /\ refs = ModuleRefs
    /\ pc = "boot"

Unused == <<rule, rules_in, rules_out, markdown_text, processed_chunks, stdout, heap, refs>>
Config == <<use_enhanced_parser, enable_enhanced_evaluation>>

\* the startup handler: dual_loader.load_existing_rules(). With the enhanced parser
\* selected the stored rules are EnhancedRule (read as such, or converted).
load_rules ==
    /\ pc = "boot"
    /\ \E stored \in {<<>>} \cup {<<r>> : r \in ServiceRules(IF use_enhanced_parser THEN "EnhancedRule" ELSE "Rule")} :
           loaded_rules' = stored
    /\ pc' = "ready"
    /\ UNCHANGED <<Config, request, response, Unused>>

\* POST /upload-pdf: process_new_document with the selected parser; when the
\* enhanced parser raises, the original parser's rules are returned instead.
upload_pdf ==
    /\ pc = "ready"
    /\ Len(loaded_rules) < MaxRules
    /\ \E enhanced_raises \in BOOLEAN :
       \E r \in ServiceRules(IF use_enhanced_parser /\ ~enhanced_raises
                             THEN "EnhancedRule" ELSE "Rule") :
           loaded_rules' = loaded_rules \o <<r>>
    /\ response' = [status |-> "ok", endpoint |-> "upload_pdf"]
    /\ UNCHANGED <<Config, request, Unused, pc>>

\* POST /upload-pdf-enhanced: file.filename is a str, so file.filename.stem raises
\* before the rules are added; the handler answers 500.
upload_pdf_enhanced ==
    /\ pc = "ready"
    /\ response' = [status |-> "error", endpoint |-> "upload_pdf_enhanced"]
    /\ UNCHANGED <<Config, loaded_rules, request, Unused, pc>>

dual_evaluate ==
    /\ pc = "ready"
    /\ \E q \in Requests :
        /\ request' = q
        /\ response' = DualEvaluate(loaded_rules, enable_enhanced_evaluation, q)
    /\ UNCHANGED <<Config, loaded_rules, Unused, pc>>

evaluate ==
    /\ pc = "ready"
    /\ \E q \in Requests :
        /\ request' = q
        /\ response' = BasicEndpoint(loaded_rules, q)
    /\ UNCHANGED <<Config, loaded_rules, Unused, pc>>

evaluate_smart ==
    /\ pc = "ready"
    /\ \E q \in Requests :
        /\ request' = q
        /\ response' = SmartEndpoint(loaded_rules, enable_enhanced_evaluation, q)
    /\ UNCHANGED <<Config, loaded_rules, Unused, pc>>

\* a variant of evaluate_enhanced that converts the rules of the shared list in
\* place instead of converting a copy
evaluate_enhanced_in_place ==
    /\ pc = "ready"
    /\ \E q \in Requests :
        /\ request' = q
        /\ response' = EnhancedEndpoint(loaded_rules, q)
    /\ loaded_rules' = [i \in 1..Len(loaded_rules) |-> from_basic_rule(loaded_rules[i])]
    /\ UNCHANGED <<Config, Unused, pc>>

evaluate_enhanced ==
    /\ pc = "ready"
    /\ \E q \in Requests :
        /\ request' = q
        /\ response' = EnhancedEndpoint(loaded_rules, q)
    /\ UNCHANGED <<Config, loaded_rules, Unused, pc>>

Next ==
    \/ load_rules
    \/ upload_pdf
    \/ upload_pdf_enhanced
    \/ dual_evaluate
    \/ evaluate
    \/ evaluate_enhanced
    \/ evaluate_smart

Spec == Init /\ [][Next]_vars

----------------------------------------------------------------------------
(* SpecAggregate: the enhanced evaluation of one request against a snapshot of
   EnhancedRule records, by the loader and by /authorization/evaluate-enhanced *)

MaxCandidates == 2

SnapshotRules ==
    {[BasicRule(auth, "", "Extracted Rule", cpts, <<>>, excl, <<>>, conf)
        EXCEPT !.kind = "EnhancedRule"] :
        auth \in {REQUIRED, CONDITIONAL, NOT_REQUIRED},
        cpts \in {<<"12345">>, <<"29826">>},
        excl \in {<<>>, <<"TX">>},
        conf \in {85, 50}}

Snapshots ==
    UNION {[1..n -> SnapshotRules] : n \in 0..MaxCandidates}

InitAggregate ==
    /\ use_enhanced_parser = TRUE
    /\ enable_enhanced_evaluation = TRUE
    /\ loaded_rules \in Snapshots
    /\ request \in {Query(cpts, {}, NONE, state, "") :
                      cpts \in {<<"12345">>, <<"29826", "12345">>}, state \in {"", "TX"}}
    /\ response = NoResponse
    /\ rule = NoRule
    /\ rules_in = <<>>
    /\ rules_out = <<>>
    /\ markdown_text = <<>>
    /\ processed_chunks = <<>>
    /\ stdout = <<>>
    /\ heap = ModuleLists
    /\ refs = ModuleRefs
    /\ pc = "start"

aggregate_dual ==
    /\ pc = "start"
    /\ response' = DualEvaluate(loaded_rules, enable_enhanced_evaluation, request)
    /\ pc' = "evaluated"
    /\ UNCHANGED <<Config, loaded_rules, request, Unused>>

aggregate_endpoint ==
    /\ pc = "start"
    /\ response' = EnhancedEndpoint(loaded_rules, request)
    /\ pc' = "evaluated"
    /\ UNCHANGED <<Config, loaded_rules, request, Unused>>

NextAggregate == aggregate_dual \/ aggregate_endpoint

SpecAggregate == InitAggregate /\ [][NextAggregate]_vars

----------------------------------------------------------------------------
(* Claims on the service and on the aggregation *)

Max(S) == CHOOSE x \in S : \A y \in S : x >= y

IsEvaluation(resp) ==
    resp.status # "none" /\ resp.endpoint \in {"dual_loader", "evaluate", "evaluate_enhanced"}

CitesGeographicExclusion(resp) ==
    \/ resp.reason = "Geographic exclusion"
    \/ "Geographic exclusion" \in Range(resp.reasoning_path)
    \/ "Rule excluded for state" \in Range(resp.reasoning_path)

\* the loaded rules that hold a code of the request
Candidates == {i \in 1..Len(loaded_rules) :
                 Range(loaded_rules[i].cpt_codes) \cap Range(request.cpt_codes) # {}}

\* C1: when a loaded rule R holds a code of the request and excludes the request's
\* state, every evaluation answers auth_required = false and cites the
\* geographic exclusion.
C1_ExcludedStateNeverRequiresAuth ==
    (/\ IsEvaluation(response)
     /\ \E i \in Candidates : request.patient_state \in Range(loaded_rules[i].excluded_states))
    => /\ response.status = "ok"
       /\ ~response.auth_required
       /\ CitesGeographicExclusion(response)

\* C5: an evaluation request with no procedure code is answered with an error,
\* never with a decision.
C5_EmptyCodesRejected ==
    (IsEvaluation(response) /\ request.cpt_codes = <<>>) => response.status = "error"

Contribution(i) == evaluate_authorization(from_basic_rule(loaded_rules[i]), request)

\* the outcome of a contribution as a requirement: an exclusion, an exemption or a
\* place of service not requiring authorization is NOT_REQUIRED, an age
\* restriction gives its own requirement, the base rule the rule's.
Outcome(i) ==
    LET r == loaded_rules[i]
        e == Contribution(i)
    IN  IF e.reason \in {"Geographic exclusion", "Diagnosis exception"} THEN NOT_REQUIRED
        ELSE IF e.reason = "Place of service rule"
        THEN (IF e.auth_required THEN REQUIRED ELSE NOT_REQUIRED)
        ELSE IF e.reason = "Age-based rule"
        THEN r.age_restrictions[Min(AgeMatches(r, request))].auth_requirement
        ELSE r.auth_requirement

Severity(a) ==
    CASE a = REQUIRED -> 3
      [] a = CONDITIONAL -> 2
      [] a = NOTIFICATION_ONLY -> 1
      [] OTHER -> 0

----------------------------------------------------------------------------
(* The enhanced parser. A text is a sequence of tokens; NL is the line break. *)

NL == "\n"
PAE == "Prior authorization required for all states except"
HDR == "CARDIOVASCULAR PROCEDURES SECTION"
DOT == "."
H1 == "# Orthopedic"
H2 == "## Arthroscopy"
PAR == "prior authorization required"
EXC == "excluding"
INFO == "general information"
ONLY_IN == "only in"
LIMITED_TO == "limited to"

\* the words of two capital letters in the texts: a state code and a word that is
\* no state code
TwoLetterWords == {"TX", "ER"}

\* the words of the authorization keywords, as the texts hold them
KeywordWords ==
    {"no", "not", "prior", "authorization", "required", "PA", "notification", "only"}

\* every word of two capital letters
UpperWords == TwoLetterWords \cup {"PA"}

CptTokens == {"12345", "29826"}

\* state_mapping of extract_geographic_exceptions, over the names of the vocabulary
StateMapping == [Alaska |-> "AK", Texas |-> "TX"]

TokLen(t) ==
    CASE t = PAE -> 50
      [] t = HDR -> 33
      [] t = PAR -> 28
      [] t = INFO -> 19
      [] t = "authorization" -> 13
      [] t = LIMITED_TO -> 10
      [] t = ONLY_IN -> 7
      [] t = "in" -> 2
      [] t = "notification" -> 12
      [] t = "required" -> 8
      [] t = "only" -> 4
      [] t = "not" -> 3
      [] t = "no" -> 2
      [] t = H2 -> 14
      [] t = H1 -> 12
      [] t = "California" -> 10
      [] t = EXC -> 9
      [] t = "Alaska" -> 6
      [] t \in UpperWords -> 2
      [] t = DOT -> 1
      [] OTHER -> 5

\* whether the token's cased characters are all upper case, mixed, or absent
TokCase(t) ==
    IF t \in {HDR} \cup UpperWords THEN "upper"
    ELSE IF t \in CptTokens \cup {DOT} THEN "none"
    ELSE "mixed"

RECURSIVE SplitLines(_)
\* markdown_text.split('\n')
SplitLines(text) ==
    IF \A k \in 1..Len(text) : text[k] # NL THEN <<text>>
    ELSE LET k == Min({j \in 1..Len(text) : text[j] = NL})
         IN  <<SubSeq(text, 1, k - 1)>> \o SplitLines(SubSeq(text, k + 1, Len(text)))

RECURSIVE Flatten(_)
\* '\n'.join(lines)
Flatten(lines) ==
    IF Len(lines) = 0 THEN <<>>
    ELSE IF Len(lines) = 1 THEN Head(lines)
    ELSE Head(lines) \o <<NL>> \o Flatten(Tail(lines))

RECURSIVE SumLen(_)
SumLen(line) == IF Len(line) = 0 THEN 0 ELSE TokLen(Head(line)) + SumLen(Tail(line))

\* len(line.strip())
StrippedLen(line) == IF Len(line) = 0 THEN 0 ELSE SumLen(line) + Len(line) - 1

\* line.strip().isupper()
IsUpper(line) ==
    /\ \E k \in 1..Len(line) : TokCase(line[k]) = "upper"
    /\ \A k \in 1..Len(line) : TokCase(line[k]) # "mixed"

RECURSIVE Sections(_, _, _)
\* text_sections before the whole text is added: lines i.. with current_section
Sections(lines, i, current_section) ==
    IF i > Len(lines) THEN <<>>
    ELSE LET cur == Append(current_section, lines[i])
             break == \/ i = Len(lines)
                      \/ (Len(lines[i]) = 0 /\ Len(cur) > 10)
                      \/ (IsUpper(lines[i]) /\ StrippedLen(lines[i]) > 20)
         IN  IF break
             THEN (IF \E k \in 1..Len(cur) : Len(cur[k]) > 0 THEN <<cur>> ELSE <<>>)
                  \o Sections(lines, i + 1, <<>>)
             ELSE Sections(lines, i + 1, cur)

\* every section the parser processes: the sections at the breaks, then the text
TextSections(text) ==
    Sections(SplitLines(text), 1, <<>>) \o <<SplitLines(text)>>

\* re.findall(cpt_pattern, section_text)
CptMatches(toks) == SelectSeq(toks, LAMBDA t : t \in CptTokens)

\* the words of a token in lower case. Only the words of the keywords matter:
\* the other tokens stand as they are.
LowerWords(t) ==
    CASE t = PAE -> <<"prior", "authorization", "required", "for", "all", "states", "except">>
      [] t = PAR -> <<"prior", "authorization", "required">>
      [] t = ONLY_IN -> <<"only", "in">>
      [] t = LIMITED_TO -> <<"limited", "to">>
      [] t = "PA" -> <<"pa">>
      [] OTHER -> <<t>>

RECURSIVE LineLower(_)
\* line.lower(), word by word; a line break is white space
LineLower(toks) ==
    IF Len(toks) = 0 THEN <<>>
    ELSE (IF Head(toks) = NL THEN <<>> ELSE LowerWords(Head(toks))) \o LineLower(Tail(toks))

\* the words of the phrase stand in the text, one after the other
Occurs(phrase, words) ==
    \E i \in 0..(Len(words) - Len(phrase)) :
        \A k \in 1..Len(phrase) : words[i + k] = phrase[k]

\* auth_patterns, each pattern as the phrases it matches; (?i) makes the text's
\* case irrelevant, so that the phrases are in lower case
auth_patterns ==
    [required |->
        {<<"prior", "authorization", "required">>,
         <<"prior", "authorization", "is", "required">>,
         <<"require", "prior", "authorization">>,
         <<"requires", "prior", "authorization">>,
         <<"pa", "required">>,
         <<"authorization", "necessary">>},
     not_required |->
        {<<n>> \o p \o <<"authorization">> \o i \o <<r>> :
            n \in {"no", "not"}, p \in {<<>>, <<"prior">>},
            i \in {<<>>, <<"is">>}, r \in {"required", "necessary"}}
        \cup {<<"authorization", "not", "required">>, <<"no", "pa", "required">>},
     notification_only |->
        {<<"notification", "only">>, <<"notify", "only">>, <<"advance", "notification">>}]

\* the first family of auth_patterns with a match decides
SectionAuthRequirement(toks) ==
    LET words == LineLower(toks)
        found(family) == \E phrase \in family : Occurs(phrase, words)
    IN  IF found(auth_patterns.required) THEN REQUIRED
        ELSE IF found(auth_patterns.not_required) THEN NOT_REQUIRED
        ELSE IF found(auth_patterns.notification_only) THEN NOTIFICATION_ONLY
        ELSE CONDITIONAL

\* the keyword lists of parse_markdown_to_rules, as they are written
auth_required_keywords ==
    {<<"prior", "authorization", "required">>, <<"requires", "prior", "authorization">>,
     <<"PA", "required">>}

auth_not_required_keywords ==
    {<<"no", "prior", "authorization">>, <<"not", "required">>, <<"no", "PA", "required">>}

notification_keywords == {<<"notification", "only">>, <<"notify", "only">>}

\* the if/elif chain of parse_markdown_to_rules: "keyword in line_lower", the
\* keyword as written against the line in lower case
LineAuthRequirement(line) ==
    LET line_lower == LineLower(line)
        any(keywords) == \E keyword \in keywords : Occurs(keyword, line_lower)
    IN  IF any(auth_required_keywords) THEN REQUIRED
        ELSE IF any(auth_not_required_keywords) THEN NOT_REQUIRED
        ELSE IF any(notification_keywords) THEN NOTIFICATION_ONLY
        ELSE CONDITIONAL

\* token j lies in the group "([^.]+)" of a match of "except\s*(?:in\s*)?([^.]+)"
Captured(toks, j) ==
    \E i \in 1..(j - 1) : toks[i] = PAE /\ \A k \in (i + 1)..j : toks[k] # DOT

\* list(set(xs)): a list of the elements of the set, each once. The order is that
\* of the hash table; the lists built this way are read by membership only.
ListOfSet(S) == CHOOSE xs \in [1..Cardinality(S) -> S] : Range(xs) = S

\* the codes read from the tokens at the positions: every word of two capital
\* letters as it stands (r'\b([A-Z]{2})\b'), and the code of every name of the table
NamedStates(toks, positions) ==
    {toks[j] : j \in {k \in positions : toks[k] \in UpperWords}}
    \cup {StateMapping[toks[j]] : j \in {k \in positions : toks[k] \in DOMAIN StateMapping}}

\* the words of a token as they are written
Words(t) ==
    CASE t = PAE -> <<"Prior", "authorization", "required", "for", "all", "states", "except">>
      [] t = PAR -> <<"prior", "authorization", "required">>
      [] t = HDR -> <<"CARDIOVASCULAR", "PROCEDURES", "SECTION">>
      [] t = INFO -> <<"general", "information">>
      [] t = H1 -> <<"#", "Orthopedic">>
      [] t = H2 -> <<"##", "Arthroscopy">>
      [] t = ONLY_IN -> <<"only", "in">>
      [] t = LIMITED_TO -> <<"limited", "to">>
      [] OTHER -> <<t>>

RECURSIVE TextWords(_)
\* the words of a text; a line break is white space
TextWords(toks) ==
    IF Len(toks) = 0 THEN <<>>
    ELSE (IF Head(toks) = NL THEN <<>> ELSE Words(Head(toks))) \o TextWords(Tail(toks))

\* the words made of an even number of letters, and of an odd number of letters
EvenLetters(w) ==
    w \in {"in", "to", "only", "no", "required", "except", "states", "notification",
           "Alaska", "California", "Orthopedic", "CARDIOVASCULAR", "PROCEDURES"}
          \cup UpperWords

OddLetters(w) ==
    w \in {"Prior", "prior", "authorization", "for", "all", "limited", "excluding",
           "not", "Texas", "general", "information", "Arthroscopy", "SECTION"}

RECURSIVE ListMatches(_, _, _)
\* re.finditer of a pattern "trigger\s*([A-Z]{2}(?:,?\s*[A-Z]{2})*)" under (?i),
\* scanning from pos: the group takes letters two by two, so that it runs over the
\* words of an even number of letters and ends inside the first other word; the
\* scan goes on after the match. The result is the positions inside the groups.
ListMatches(words, pos, triggers) ==
    LET starts == {i \in pos..(Len(words) - 2) :
                      /\ <<words[i], words[i + 1]>> \in triggers
                      /\ (EvenLetters(words[i + 2]) \/ OddLetters(words[i + 2]))}
    IN  IF starts = {} THEN {}
        ELSE LET i == Min(starts)
                 stop == Min({j \in (i + 2)..(Len(words) + 1) :
                                 j = Len(words) + 1 \/ ~EvenLetters(words[j])})
                 next == IF stop <= Len(words) /\ OddLetters(words[stop])
                         THEN stop + 1 ELSE stop
             IN  ((i + 2)..(stop - 1)) \cup ListMatches(words, next, triggers)

\* the mutant of extract_geographic_exceptions that keeps only the first token of
\* the captured text
extract_geographic_exceptions_first_token(toks) ==
    [excluded_states |->
        ListOfSet(NamedStates(toks, {j \in 2..Len(toks) : toks[j - 1] = PAE})),
     included_states |-> <<>>]

\* extract_geographic_exceptions: every code and every name of the table in the
\* text captured by any of the four patterns goes to excluded_states, the
\* pattern of "limited to" and "only in" included; included_states is never filled
extract_geographic_exceptions(toks) ==
    LET words == TextWords(toks)
    IN  [excluded_states |->
            ListOfSet(NamedStates(toks, {j \in 1..Len(toks) : Captured(toks, j)})
                      \cup NamedStates(words,
                                ListMatches(words, 1, {<<"except", "in">>,
                                                       <<"excluding", "in">>}))
                      \cup NamedStates(words,
                                ListMatches(words, 1, {<<"limited", "to">>,
                                                       <<"only", "in">>}))),
         included_states |-> <<>>]

\* the end of the text captured from position i: the token before the next period
RunEnd(toks, i) ==
    IF \E k \in (i + 1)..Len(toks) : toks[k] = DOT
    THEN Min({k \in (i + 1)..Len(toks) : toks[k] = DOT}) - 1
    ELSE Len(toks)

ConditionalEntry(states) ==
    [condition_type |-> "IF_THEN", state_not_in |-> ListOfSet(states),
     result_auth_requirement |-> REQUIRED]

RECURSIVE ConditionalMatches(_, _, _)
\* the entries of one pattern of extract_conditional_logic, scanning from pos.
\* greedy: the pattern "all\s*states[^.]*except..." runs to the last "except"
\* before the period that still has text after it; the pattern
\* "prior\s*authorization...required...except..." stops at the first.
ConditionalMatches(toks, pos, greedy) ==
    LET starts == {i \in pos..(Len(toks) - 1) : toks[i] = PAE}
    IN  IF starts = {} THEN <<>>
        ELSE LET i == Min(starts)
                 e == RunEnd(toks, i)
                 excepts == {k \in i..e : toks[k] = PAE /\ k < Len(toks)}
                 k == IF greedy THEN Max(excepts) ELSE i
                 states == NamedStates(toks, (k + 1)..e)
             IN  (IF states # {} THEN <<ConditionalEntry(states)>> ELSE <<>>)
                 \o ConditionalMatches(toks, e + 1, greedy)

\* extract_conditional_logic: the three patterns in turn; the third needs
\* "except in", which no token of the vocabulary holds
extract_conditional_logic(toks) ==
    ConditionalMatches(toks, 1, TRUE) \o ConditionalMatches(toks, 1, FALSE)

\* the first non-blank line without five digits, else "Extracted Rule"
ServiceName(lines) ==
    LET ok == {k \in 1..Len(lines) :
                 Len(lines[k]) > 0 /\ \A j \in 1..Len(lines[k]) : lines[k][j] \notin CptTokens}
    IN  IF ok = {} THEN <<"Extracted Rule">> ELSE lines[Min(ok)]

\* the EnhancedRule built from one section holding codes. No token of the
\* vocabulary matches a place-of-service, diagnosis-exception or age pattern.
SectionRule(lines) ==
    LET toks == Flatten(lines)
        geo == extract_geographic_exceptions(toks)
    IN  [BasicRule(SectionAuthRequirement(toks), "", ServiceName(lines),
                   CptMatches(toks), <<>>, geo.excluded_states, geo.included_states, 85)
           EXCEPT !.kind = "EnhancedRule",
                  !.conditional_logic = extract_conditional_logic(toks)]

\* the sections that yield a rule: those holding a code
RuleSections(text) ==
    LET secs == TextSections(text)
    IN  SubSeqAt(secs, {k \in 1..Len(secs) : CptMatches(Flatten(secs[k])) # <<>>})

parse_markdown_to_enhanced_rules(text) ==
    [k \in 1..Len(RuleSections(text)) |-> SectionRule(RuleSections(text)[k])]

MaxTextLen == 4

Vocabulary == {NL, PAE, HDR, DOT, "Alaska", "Texas", "California", "12345"}

Texts == UNION {[1..n -> Vocabulary] : n \in 0..MaxTextLen}

InitParse ==
    /\ use_enhanced_parser = TRUE
    /\ enable_enhanced_evaluation = TRUE
    /\ loaded_rules = <<>>
    /\ request = NoRequest
    /\ response = NoResponse
    /\ rule = NoRule
    /\ rules_in = <<>>
    /\ rules_out = <<>>
    /\ markdown_text \in Texts
    /\ processed_chunks = <<>>
    /\ stdout = <<>>
    /\ heap = ModuleLists
    /\ refs = ModuleRefs
    /\ pc = "start"

parse_enhanced ==
    /\ pc = "start"
    /\ rules_out' = parse_markdown_to_enhanced_rules(markdown_text)
    /\ pc' = "parsed"
    /\ UNCHANGED <<Config, loaded_rules, request, response, rule, rules_in, markdown_text,
                   processed_chunks, stdout, heap, refs>>

\* one extracted rule evaluated for its code and a patient state
evaluate_extracted ==
    /\ pc = "parsed"
    /\ \E i \in 1..Len(rules_out) : \E state \in {"", "AK", "TX", "CA"} :
        /\ rule' = rules_out[i]
        /\ request' = Query(<<"12345">>, {}, NONE, state, "")
        /\ response' = [status |-> "ok", index |-> i,
                        evaluation |-> evaluate_authorization(rules_out[i], request')]
    /\ pc' = "evaluated"
    /\ UNCHANGED <<Config, loaded_rules, rules_in, rules_out, markdown_text,
                   processed_chunks, stdout, heap, refs>>

NextParse == parse_enhanced \/ evaluate_extracted

SpecParse == InitParse /\ [][NextParse]_vars

\* the states a section names after "for all states except", up to the period
ClaimedStates(lines) ==
    LET toks == Flatten(lines)
        abbreviation == [Alaska |-> "AK", Texas |-> "TX", California |-> "CA"]
    IN  {abbreviation[toks[j]] : j \in {k \in 1..Len(toks) :
            Captured(toks, k) /\ toks[k] \in DOMAIN abbreviation}}

----------------------------------------------------------------------------
(* merge_related_rules, the last step of parse_markdown_to_rules. *)

\* the key under which merge_related_rules groups rules
GroupingKey(r) == <<r.payer, r.category, r.service, r.auth_requirement>>

\* Python truth of an Optional[float]: None and 0.0 are both false
Truthy(conf) == conf # NONE /\ conf # 0

\* existing after "rule" has been merged into it
MergedWith(existing, r) ==
    [existing EXCEPT
        !.cpt_codes = ListOfSet(Range(existing.cpt_codes \o r.cpt_codes)),
        !.icd_codes = ListOfSet(Range(existing.icd_codes \o r.icd_codes)),
        !.excluded_states = ListOfSet(Range(existing.excluded_states \o r.excluded_states)),
        !.included_states = ListOfSet(Range(existing.included_states \o r.included_states)),
        !.confidence_score =
            IF Truthy(r.confidence_score) /\ Truthy(existing.confidence_score)
            THEN Min({existing.confidence_score, r.confidence_score})
            ELSE existing.confidence_score]

RECURSIVE MergeInto(_, _)
\* the loop of merge_related_rules: merged_rules in insertion order, rules to go
MergeInto(merged_rules, rules) ==
    IF Len(rules) = 0 THEN merged_rules
    ELSE LET r == Head(rules)
             hits == {k \in 1..Len(merged_rules) :
                        GroupingKey(merged_rules[k]) = GroupingKey(r)}
         IN  IF hits = {}
             THEN MergeInto(Append(merged_rules, r), Tail(rules))
             ELSE LET k == CHOOSE h \in hits : TRUE
                  IN  MergeInto([merged_rules EXCEPT ![k] = MergedWith(merged_rules[k], r)],
                                Tail(rules))

RECURSIVE merge_related_rules_by_pairs(_)
\* the mutant of merge_related_rules that merges a rule into the rule before it
\* and starts anew after each merge
merge_related_rules_by_pairs(rules) ==
    IF Len(rules) < 2 THEN rules
    ELSE IF GroupingKey(rules[1]) = GroupingKey(rules[2])
         THEN <<MergedWith(rules[1], rules[2])>>
              \o merge_related_rules_by_pairs(Tail(Tail(rules)))
         ELSE <<rules[1]>> \o merge_related_rules_by_pairs(Tail(rules))

merge_related_rules(rules) == MergeInto(<<>>, rules)

MaxMerge == 2

\* the rules the line parser can hand to the merge: one code list per line, codes
\* repeated as the text repeats them; confidence absent, 0.0, 0.5 or 0.8
MergeRules ==
    {BasicRule(k[2], "", k[1], cpts, x[1], x[2], x[3], conf) :
        k \in {<<"Arthroscopy", REQUIRED>>, <<"Arthroscopy", NOT_REQUIRED>>,
               <<"Cardiology", REQUIRED>>},
        cpts \in {<<"12345">>, <<"29826", "29826">>, <<"12345", "29826">>},
        x \in {<<<<>>, <<>>, <<>>>>, <<<<"M75.100">>, <<"TX">>, <<"CA">>>>},
        conf \in {NONE, 0, 50, 80}}

InitMerge ==
    /\ use_enhanced_parser = FALSE
    /\ enable_enhanced_evaluation = TRUE
    /\ loaded_rules = <<>>
    /\ request = NoRequest
    /\ response = NoResponse
    /\ rule = NoRule
    /\ rules_in \in UNION {[1..n -> MergeRules] : n \in 0..MaxMerge}
    /\ rules_out = <<>>
    /\ markdown_text = <<>>
    /\ processed_chunks = <<>>
    /\ stdout = <<>>
    /\ heap = ModuleLists
    /\ refs = ModuleRefs
    /\ pc = "start"

merge ==
    /\ pc = "start"
    /\ rules_out' = merge_related_rules(rules_in)
    /\ pc' = "merged"
    /\ UNCHANGED <<Config, loaded_rules, request, response, rule, rules_in, markdown_text,
                   processed_chunks, stdout, heap, refs>>

NextMerge == merge

SpecMerge == InitMerge /\ [][NextMerge]_vars

\* the input rules of one grouping key
Group(key) == {i \in 1..Len(rules_in) : GroupingKey(rules_in[i]) = key}

NoDuplicates(s) == \A i, j \in 1..Len(s) : i # j => s[i] # s[j]

\* the list holds exactly the union of the lists of the group, each element once
IsUnionOf(merged, lists) ==
    NoDuplicates(merged) /\ Range(merged) = UNION {Range(l) : l \in lists}

\* C8: for each key the merged rule's procedure codes, diagnosis codes, excluded
\* states and included states are the set union of those of the input rules of
\* that key, each element occurring once.
C8_MergedListsAreSetUnions ==
    pc = "merged" =>
        \A i \in 1..Len(rules_in) :
            LET key == GroupingKey(rules_in[i])
            IN  \E k \in 1..Len(rules_out) :
                 /\ GroupingKey(rules_out[k]) = key
                 /\ IsUnionOf(rules_out[k].cpt_codes, {rules_in[j].cpt_codes : j \in Group(key)})
                 /\ IsUnionOf(rules_out[k].icd_codes, {rules_in[j].icd_codes : j \in Group(key)})
                 /\ IsUnionOf(rules_out[k].excluded_states,
                              {rules_in[j].excluded_states : j \in Group(key)})
                 /\ IsUnionOf(rules_out[k].included_states,
                              {rules_in[j].included_states : j \in Group(key)})

\* C9: when two or more rules with confidence values in [0,1] share a key, the
\* merged rule's confidence is the minimum of their confidences.
C9_MergedConfidenceIsMinimum ==
    pc = "merged" =>
        \A k \in 1..Len(rules_out) :
            LET group == Group(GroupingKey(rules_out[k]))
                scores == {rules_in[j].confidence_score : j \in group}
            IN  (Cardinality(group) >= 2 /\ NONE \notin scores)
                => rules_out[k].confidence_score = Min(scores)

\* C10: no two rules returned for one document share the grouping key.
C10_GroupingKeyUnique ==
    pc = "parsed" =>
        \A i, j \in 1..Len(rules_out) :
            i # j => GroupingKey(rules_out[i]) # GroupingKey(rules_out[j])

----------------------------------------------------------------------------
(* Frame of the evaluations *)

EvaluationEndpoints == {"dual_loader", "evaluate", "evaluate_enhanced", "evaluate_smart"}

\* C11: a step that answers an evaluation (the loader, /authorization/evaluate,
\* /authorization/evaluate-enhanced, /authorization/evaluate-smart) leaves the
\* loaded rule list and every field of every rule in it as they were.
C11_EvaluationsLeaveRulesUnchanged ==
    [][(/\ response'.status # "none"
        /\ response'.endpoint \in EvaluationEndpoints
        /\ <<request', response'>> # <<request, response>>)
       => loaded_rules' = loaded_rules]_vars

\* basic rules are loaded and the enhanced endpoint, which converts each rule
\* before evaluating it, has answered "required"
C11_Witness ==
    /\ response.status = "ok"
    /\ response.endpoint = "evaluate_enhanced"
    /\ response.auth_required
    /\ Len(loaded_rules) = MaxRules
    /\ \A i \in 1..Len(loaded_rules) : loaded_rules[i].kind = "Rule"

----------------------------------------------------------------------------
(* SpecReload: installing rules while evaluations are served. The handlers are
   coroutines on one event loop: a handler runs without interruption from one
   await to the next. The upload handlers await once (file.read()), before they
   read or write the rule list; the evaluation handlers never await. *)

MaxLoaded == 3
MaxExtracted == 2

ReloadRules ==
    {BasicRule(auth, "", "Extracted Rule", <<"12345">>, <<>>, <<>>, <<>>, 80) :
        auth \in {REQUIRED, CONDITIONAL}}

\* the rules one document yields
Extractions == UNION {[1..n -> ReloadRules] : n \in 0..MaxExtracted}

InitReload ==
    /\ use_enhanced_parser = FALSE
    /\ enable_enhanced_evaluation = TRUE
    /\ loaded_rules = <<>>
    /\ request = NoRequest
    /\ response = NoResponse
    /\ rule = NoRule
    /\ rules_in = <<>>
    /\ rules_out = <<>>
    /\ markdown_text = <<>>
    /\ processed_chunks = <<>>
    /\ stdout = <<>>
    /\ heap = ModuleLists
    /\ refs = ModuleRefs
    /\ pc = "boot"

ReloadFrame == <<Config, request, rule, rules_in, markdown_text, processed_chunks, stdout>>

\* the startup handler: a new list is built by load_existing_rules and both names
\* are bound to it
startup_load_rules ==
    /\ pc = "boot"
    /\ \E stored \in {<<>>} \cup {<<r>> : r \in ReloadRules} :
        /\ heap' = Append(heap, stored)
        /\ loaded_rules' = stored
    /\ refs' = [main |-> Len(heap) + 1, loader |-> Len(heap) + 1]
    /\ pc' = "ready"
    /\ UNCHANGED <<ReloadFrame, response, rules_out>>

\* POST /upload-pdf up to "await file.read()": the document, given by the rules it
\* will yield, is received; no response has been sent since
upload_pdf_receive ==
    /\ pc = "ready"
    /\ \E extracted_rules \in Extractions :
        /\ Len(loaded_rules) + Len(extracted_rules) <= MaxLoaded
        /\ rules_out' = extracted_rules
    /\ response' = NoResponse
    /\ pc' = "uploading"
    /\ UNCHANGED <<ReloadFrame, loaded_rules, heap, refs>>

\* a variant of upload_pdf_install that adds one rule and yields to the event
\* loop before adding the next
upload_pdf_install_one_by_one ==
    /\ pc = "uploading"
    /\ heap' = [heap EXCEPT ![refs.main] =
                    IF Len(rules_out) = 0 THEN @ ELSE Append(@, Head(rules_out))]
    /\ loaded_rules' = heap'[refs.main]
    /\ refs' = [refs EXCEPT !.loader = refs.main]
    /\ rules_out' = IF Len(rules_out) = 0 THEN <<>> ELSE Tail(rules_out)
    /\ pc' = IF Len(rules_out) <= 1 THEN "ready" ELSE "uploading"
    /\ response' = [status |-> "ok", endpoint |-> "upload_pdf"]
    /\ UNCHANGED ReloadFrame

\* POST /upload-pdf after the await: loaded_rules.extend(extracted_rules) on the
\* list main.loaded_rules names, then dual_loader.loaded_rules = loaded_rules
upload_pdf_install ==
    /\ pc = "uploading"
    /\ heap' = [heap EXCEPT ![refs.main] = @ \o rules_out]
    /\ loaded_rules' = heap'[refs.main]
    /\ refs' = [refs EXCEPT !.loader = refs.main]
    /\ rules_out' = <<>>
    /\ pc' = "ready"
    /\ response' = [status |-> "ok", endpoint |-> "upload_pdf"]
    /\ UNCHANGED ReloadFrame

\* POST /upload-pdf-enhanced: raises at file.filename.stem, before the list is
\* touched
upload_pdf_enhanced_raise ==
    /\ pc \in {"ready", "uploading"}
    /\ response' = [status |-> "error", endpoint |-> "upload_pdf_enhanced"]
    /\ UNCHANGED <<ReloadFrame, loaded_rules, rules_out, heap, refs, pc>>

\* an evaluation by the loader, which reads the list dual_loader.loaded_rules names
evaluate_loader_list ==
    /\ pc \in {"ready", "uploading"}
    /\ \E state \in {"", "TX"} :
        /\ request' = Query(<<"12345">>, {}, NONE, state, "")
        /\ response' = DualEvaluate(heap[refs.loader], enable_enhanced_evaluation, request')
    /\ UNCHANGED <<Config, rule, rules_in, markdown_text, processed_chunks, stdout,
                   loaded_rules, rules_out, heap, refs, pc>>

\* an evaluation by /authorization/evaluate-enhanced, which reads the list
\* main.loaded_rules names
evaluate_main_list ==
    /\ pc \in {"ready", "uploading"}
    /\ \E state \in {"", "TX"} :
        /\ request' = Query(<<"12345">>, {}, NONE, state, "")
        /\ response' = EnhancedEndpoint(heap[refs.main], request')
    /\ UNCHANGED <<Config, rule, rules_in, markdown_text, processed_chunks, stdout,
                   loaded_rules, rules_out, heap, refs, pc>>

NextReload ==
    \/ startup_load_rules
    \/ upload_pdf_receive
    \/ upload_pdf_install
    \/ upload_pdf_enhanced_raise
    \/ evaluate_loader_list
    \/ evaluate_main_list

SpecReload == InitReload /\ [][NextReload]_vars

C13_ExtractedListsHaveNoDuplicates ==
    pc = "parsed" =>
        \A k \in 1..Len(rules_out) :
            /\ NoDuplicates(rules_out[k].cpt_codes)
            /\ NoDuplicates(rules_out[k].excluded_states)
            /\ NoDuplicates(rules_out[k].included_states)

----------------------------------------------------------------------------
(* Chunk-based parser: BasicIntelligentChunker, the line parser of            *)
(* uhc_rules.py and EnhancedRuleParser. A confidence computed by the chunker  *)
(* is an exact fraction [num, den]; a category, a service name or a header    *)
(* title is the token sequence of its line, and <<>> when absent.             *)

\* the codes of state_pattern in uhc_rules.py
state_pattern ==
    {"AL", "AK", "AZ", "AR", "CA", "CO", "CT", "DE", "FL", "GA", "HI", "ID", "IL",
     "IN", "IA", "KS", "KY", "LA", "ME", "MD", "MA", "MI", "MN", "MS", "MO", "MT",
     "NE", "NV", "NH", "NJ", "NM", "NY", "NC", "ND", "OH", "OK", "OR", "PA", "RI",
     "SC", "SD", "TN", "TX", "UT", "VT", "VA", "WA", "WV", "WI", "WY", "DC"}

\* the codes State.validate_state_code accepts, and the chunker looks for
valid_states == state_pattern \cup {"PR", "VI", "GU", "AS", "MP"}

RECURSIVE GCD(_, _)
GCD(a, b) == IF b = 0 THEN a ELSE GCD(b, a % b)

\* the fraction n/d in lowest terms
Rat(n, d) == [num |-> n \div GCD(n, d), den |-> d \div GCD(n, d)]

RatLeq(a, b) == a.num * b.den <= b.num * a.den

RatMin(a, b) == IF RatLeq(a, b) THEN a ELSE b

RatAdd(a, b) == Rat(a.num * b.den + b.num * a.den, a.den * b.den)

\* len(line.split()) of one token
TokWords(t) ==
    CASE t = PAE -> 7
      [] t \in {HDR, PAR} -> 3
      [] t \in {H1, H2, INFO, ONLY_IN, LIMITED_TO} -> 2
      [] OTHER -> 1

\* words[0][0].isupper() for a line that starts with the token
FirstCharUpper(t) == t \in {PAE, HDR, "Alaska", "Texas", "California"} \cup UpperWords

\* re.match(r'^(#{1,6})\s*(.+)', line)
IsHeader(line) == Len(line) > 0 /\ line[1] \in {H1, H2}

Level(line) == IF line[1] = H1 THEN 1 ELSE 2

NoSection == [open |-> FALSE, hierarchy |-> <<>>, content |-> <<>>]

\* "if current_section and current_section['content'].strip(): sections.append"
Closed(current_section) ==
    IF current_section.open /\ Len(current_section.content) > 0
    THEN <<[hierarchy |-> current_section.hierarchy, content |-> current_section.content]>>
    ELSE <<>>

RECURSIVE SectionsFrom(_, _, _, _)
\* the loop of _parse_into_sections from line i on
SectionsFrom(lines, i, current_section, section_stack) ==
    IF i > Len(lines) THEN Closed(current_section)
    ELSE LET line == lines[i]
         IN  IF Len(line) = 0
             THEN SectionsFrom(lines, i + 1, current_section, section_stack)
             ELSE IF IsHeader(line)
             THEN LET stack == SubSeq(section_stack, 1,
                                      Min({Level(line) - 1, Len(section_stack)}))
                               \o <<line>>
                  IN  Closed(current_section)
                      \o SectionsFrom(lines, i + 1,
                                      [open |-> TRUE, hierarchy |-> stack, content |-> <<>>],
                                      stack)
             ELSE IF current_section.open
             THEN SectionsFrom(lines, i + 1,
                               [current_section EXCEPT !.content = Append(@, line)],
                               section_stack)
             ELSE SectionsFrom(lines, i + 1,
                               [open |-> TRUE, hierarchy |-> <<<<"Document Content">>>>,
                                content |-> <<line>>],
                               section_stack)

_parse_into_sections(text) == SectionsFrom(SplitLines(text), 1, NoSection, <<>>)

\* how many patterns of each family match the content
auth_matches(toks) == IF \E k \in 1..Len(toks) : toks[k] \in {PAR, PAE} THEN 2 ELSE 0

exception_matches(toks) == IF \E k \in 1..Len(toks) : toks[k] = EXC THEN 1 ELSE 0

cpt_matches(toks) == IF \E k \in 1..Len(toks) : toks[k] \in CptTokens THEN 1 ELSE 0

geo_matches(toks) ==
    (IF \E k \in 1..Len(toks) : toks[k] = PAE THEN 1 ELSE 0)
    + (IF \E k \in 1..Len(toks) : toks[k] \in valid_states THEN 1 ELSE 0)

\* the scores of _classify_content in the order the dict holds them
Scores(auth, exception, cpt, geo) ==
    <<[type |-> "authorization_rule", score |-> auth * 2 + cpt],
      [type |-> "geographic_exception", score |-> exception * 2 + geo],
      [type |-> "procedure_list", score |-> cpt * 2],
      [type |-> "context_info", score |-> 1]>>

\* the confidence of _classify_content from the greatest score and the sum
Confidence(max_score, total_matches) ==
    LET confidence == IF total_matches > 1
                      THEN RatMin(Rat(max_score, total_matches), Rat(95, 100))
                      ELSE Rat(50, 100)
    IN  IF max_score >= 3
        THEN RatMin(RatAdd(confidence, Rat(20, 100)), Rat(95, 100))
        ELSE confidence

\* the mutant of the classification that keeps the last type of greatest score
classify_matches_last_wins(auth, exception, cpt, geo) ==
    LET scores == Scores(auth, exception, cpt, geo)
        max_score == Max({scores[k].score : k \in 1..4})
        best == Max({k \in 1..4 : scores[k].score = max_score})
        total_matches == scores[1].score + scores[2].score + scores[3].score
                         + scores[4].score
    IN  [content_type |-> scores[best].type,
         confidence |-> Confidence(max_score, total_matches)]

\* the mutant of the classification without the default confidence of 0.5
classify_matches_no_default(auth, exception, cpt, geo) ==
    LET scores == Scores(auth, exception, cpt, geo)
        max_score == Max({scores[k].score : k \in 1..4})
        best == Min({k \in 1..4 : scores[k].score = max_score})
        total_matches == scores[1].score + scores[2].score + scores[3].score
                         + scores[4].score
        ratio == RatMin(Rat(max_score, total_matches), Rat(95, 100))
    IN  [content_type |-> scores[best].type,
         confidence |-> IF max_score >= 3
                        THEN RatMin(RatAdd(ratio, Rat(20, 100)), Rat(95, 100))
                        ELSE ratio]

\* _classify_content from the four counts: max() over the keys of the dict returns
\* the first type of greatest score
classify_matches(auth, exception, cpt, geo) ==
    LET scores == Scores(auth, exception, cpt, geo)
        max_score == Max({scores[k].score : k \in 1..4})
        best == Min({k \in 1..4 : scores[k].score = max_score})
        total_matches == scores[1].score + scores[2].score + scores[3].score
                         + scores[4].score
    IN  [content_type |-> scores[best].type,
         confidence |-> Confidence(max_score, total_matches)]

\* _classify_content
_classify_content(content) ==
    LET toks == Flatten(content)
    IN  classify_matches(auth_matches(toks), exception_matches(toks),
                         cpt_matches(toks), geo_matches(toks))

\* _extract_hints: an absent key is <<>> for a list and "" for a string
_extract_hints(content, content_type) ==
    LET toks == Flatten(content)
        required == \E k \in 1..Len(toks) : toks[k] \in {PAR, PAE}
    IN  [cpt_codes |-> ListOfSet(Range(CptMatches(toks))),
         states |-> ListOfSet({toks[k] : k \in {j \in 1..Len(toks) : toks[j] \in valid_states}}),
         auth_requirement |->
            IF required THEN "REQUIRED"
            ELSE IF content_type = "geographic_exception" THEN "NOT_REQUIRED"
            ELSE ""]

\* _process_section: one chunk per section. The chunk_id is unique by its uuid
\* part; it is the position of the chunk here.
_process_section(section, id) ==
    LET c == _classify_content(section.content)
    IN  [chunk_id |-> id,
         content_type |-> c.content_type,
         section_hierarchy |-> section.hierarchy,
         primary_content |-> section.content,
         extraction_hints |-> _extract_hints(section.content, c.content_type),
         confidence_score |-> c.confidence]

preprocess_markdown(text) ==
    LET sections == _parse_into_sections(text)
    IN  [k \in 1..Len(sections) |-> _process_section(sections[k], k)]

\* the rule built from one line that holds codes (uhc_rules.py 80-147). No token of
\* the vocabulary is an HCPCS code, a range, an ICD code or a narrative indicator.
LineRule(line, current_category, current_service) ==
    LET state_matches == SelectSeq(line, LAMBDA t : t \in state_pattern)
        line_lower == LineLower(line)
        excluding == \/ Occurs(<<"except">>, line_lower)
                     \/ Occurs(<<"excluding">>, line_lower)
        only == \/ Occurs(<<"only", "in">>, line_lower)
                \/ Occurs(<<"limited", "to">>, line_lower)
    IN  BasicRule(LineAuthRequirement(line),
                  current_category, current_service, CptMatches(line), <<>>,
                  IF excluding THEN state_matches ELSE <<>>,
                  IF ~excluding /\ only THEN state_matches ELSE <<>>, 80)

RECURSIVE LineRules(_, _, _, _)
\* the loop of parse_markdown_to_rules from line i on
LineRules(lines, i, current_category, current_service) ==
    IF i > Len(lines) THEN <<>>
    ELSE LET line == lines[i]
             codes == CptMatches(line)
             service == IF /\ Len(line) > 0
                           /\ Len(codes) = 0
                           /\ (Len(line) > 1 \/ TokWords(line[1]) > 1)
                           /\ FirstCharUpper(line[1])
                        THEN line ELSE current_service
         IN  IF Len(line) > 0 /\ IsUpper(line) /\ StrippedLen(line) > 5
             THEN LineRules(lines, i + 1, line, current_service)
             ELSE (IF Len(codes) > 0
                   THEN <<LineRule(line, current_category, service)>> ELSE <<>>)
                  \o LineRules(lines, i + 1, current_category, service)

RECURSIVE EveryLineRules(_, _)
\* the loop of the line parser without its test "if all_codes"
EveryLineRules(lines, i) ==
    IF i > Len(lines) THEN <<>>
    ELSE (IF Len(lines[i]) > 0 THEN <<LineRule(lines[i], <<>>, <<>>)>> ELSE <<>>)
         \o EveryLineRules(lines, i + 1)

\* the mutant of parse_markdown_to_rules that builds a rule from every line
parse_markdown_to_rules_every_line(text) ==
    merge_related_rules(EveryLineRules(SplitLines(text), 1))

\* parse_markdown_to_rules of uhc_rules.py, up to save_processed_rules
parse_markdown_to_rules(text) ==
    merge_related_rules(LineRules(SplitLines(text), 1, <<>>, <<>>))

\* the mutant of _apply_chunk_hints that adds the chunk's confidence to the rule's
_apply_chunk_hints_adding_confidence(r, chunk) ==
    [r EXCEPT
        !.cpt_codes = IF Len(chunk.extraction_hints.cpt_codes) > 0
                      THEN ListOfSet(Range(@) \cup Range(chunk.extraction_hints.cpt_codes))
                      ELSE @,
        !.confidence_score = RatAdd(Rat(@, 100), chunk.confidence_score)]

\* _apply_chunk_hints: the codes of the hints join the rule's codes and the chunk's
\* confidence replaces the rule's. An AuthRequirement is never false, so that the
\* hinted requirement is never applied; Rule has no attribute "description".
_apply_chunk_hints(r, chunk) ==
    [r EXCEPT
        !.cpt_codes = IF Len(chunk.extraction_hints.cpt_codes) > 0
                      THEN ListOfSet(Range(@) \cup Range(chunk.extraction_hints.cpt_codes))
                      ELSE @,
        !.confidence_score = chunk.confidence_score]

\* _extract_from_chunk. The line parser fails when save_processed_rules cannot
\* write (parser_fails). The fallback _create_rule_from_hints returns no rule when
\* the hints hold no code; otherwise it builds Rule(...) without the required
\* source_page, which raises a ValidationError that nothing catches.
_extract_from_chunk(chunk, parser_fails) ==
    IF ~parser_fails
    THEN LET chunk_rules == parse_markdown_to_rules(Flatten(chunk.primary_content))
         IN  [raised |-> FALSE,
              rules |-> [k \in 1..Len(chunk_rules) |-> _apply_chunk_hints(chunk_rules[k], chunk)],
              stdout |-> <<[msg |-> "Total rules extracted", chunk |-> chunk.chunk_id]>>]
    ELSE IF Len(chunk.extraction_hints.cpt_codes) = 0
    THEN [raised |-> FALSE, rules |-> <<>>,
          stdout |-> <<[msg |-> "Existing parser failed on chunk", chunk |-> chunk.chunk_id],
                       [msg |-> "No CPT codes in hints for chunk", chunk |-> chunk.chunk_id]>>]
    ELSE [raised |-> TRUE, rules |-> <<>>,
          stdout |-> <<[msg |-> "Existing parser failed on chunk", chunk |-> chunk.chunk_id]>>]

RECURSIVE ExtractFrom(_, _, _, _, _)
\* the loop of parse_with_preprocessing over rule_generating_chunks from i on
ExtractFrom(chunks, i, failing, all_rules, printed) ==
    IF i > Len(chunks) THEN [raised |-> FALSE, rules |-> all_rules, stdout |-> printed]
    ELSE LET r == _extract_from_chunk(chunks[i], chunks[i].chunk_id \in failing)
             log == IF Len(r.rules) > 0
                    THEN <<[msg |-> "Chunk rules", chunk |-> chunks[i].chunk_id]>>
                    ELSE <<>>
         IN  IF r.raised
             THEN [raised |-> TRUE, rules |-> <<>>, stdout |-> printed \o r.stdout]
             ELSE ExtractFrom(chunks, i + 1, failing, all_rules \o r.rules,
                              printed \o r.stdout \o log)

RECURSIVE _apply_geographic_exceptions(_, _)
_apply_geographic_exceptions(rules, exception_chunks) ==
    IF Len(exception_chunks) = 0 THEN rules
    ELSE LET hints == Head(exception_chunks).extraction_hints
             applies(r) == \/ Len(hints.cpt_codes) = 0
                           \/ \E k \in 1..Len(hints.cpt_codes) : InList(hints.cpt_codes[k], r.cpt_codes)
         IN  _apply_geographic_exceptions(
                 IF Len(hints.states) = 0 THEN rules
                 ELSE [k \in 1..Len(rules) |->
                          IF applies(rules[k])
                          THEN [rules[k] EXCEPT !.excluded_states =
                                   ListOfSet(Range(@) \cup Range(hints.states))]
                          ELSE rules[k]],
                 Tail(exception_chunks))

\* EnhancedRuleParser.parse_with_preprocessing: what it returns or that it raised,
\* and what it printed. "failing" holds the chunks on which the line parser fails.
parse_with_preprocessing(text, failing) ==
    LET processed == preprocess_markdown(text)
        rule_generating_chunks ==
            SelectSeq(processed, LAMBDA c : c.content_type \in {"authorization_rule", "procedure_list"})
        exception_chunks ==
            SelectSeq(processed, LAMBDA c : c.content_type = "geographic_exception")
        start == <<[msg |-> "Processing", chunk |-> 0]>>
        extracted == ExtractFrom(rule_generating_chunks, 1, failing, <<>>, start)
        applied == SelectSeq(exception_chunks, LAMBDA c : Len(c.extraction_hints.states) > 0)
    IN  IF extracted.raised
        THEN [status |-> "raised", exception |-> "ValidationError",
              rules |-> <<>>, chunks |-> processed, stdout |-> extracted.stdout]
        ELSE [status |-> "ok", exception |-> "",
              rules |-> _apply_geographic_exceptions(extracted.rules, exception_chunks),
              chunks |-> processed,
              stdout |-> extracted.stdout
                         \o [k \in 1..Len(applied) |->
                                [msg |-> "Applied geographic exceptions",
                                 chunk |-> applied[k].chunk_id]]]

MaxDocLen == 4

DocVocabulary == {NL, H1, H2, "12345", PAR, EXC, INFO, "TX"}

RECURSIVE HeadersOnOwnLines(_)
\* the text of a sequence of items in which a header is a line of its own
HeadersOnOwnLines(items) ==
    IF Len(items) = 0 THEN <<>>
    ELSE (IF Head(items) \in {H1, H2} THEN <<NL, Head(items), NL>> ELSE <<Head(items)>>)
         \o HeadersOnOwnLines(Tail(items))

\* the documents: at most MaxDocLen words, line breaks and header lines
Documents == {HeadersOnOwnLines(d) : d \in UNION {[1..n -> DocVocabulary] : n \in 0..MaxDocLen}}

InitChunks ==
    /\ use_enhanced_parser = FALSE
    /\ enable_enhanced_evaluation = FALSE
    /\ loaded_rules = <<>>
    /\ request = NoRequest
    /\ response = NoResponse
    /\ rule = NoRule
    /\ rules_in = <<>>
    /\ rules_out = <<>>
    /\ markdown_text \in Documents
    /\ processed_chunks = <<>>
    /\ stdout = <<>>
    /\ heap = ModuleLists
    /\ refs = ModuleRefs
    /\ pc = "start"

ChunksFrame == <<Config, loaded_rules, request, rule, rules_in, markdown_text, heap, refs>>

\* BasicIntelligentChunker.preprocess_markdown on its own
preprocess ==
    /\ pc = "start"
    /\ processed_chunks' = preprocess_markdown(markdown_text)
    /\ pc' = "chunked"
    /\ UNCHANGED <<ChunksFrame, response, rules_out, stdout>>

\* parse_markdown_to_rules of uhc_rules.py on the whole document; it raises when
\* save_processed_rules cannot write
parse_lines ==
    /\ pc = "start"
    /\ \E fails \in BOOLEAN :
        /\ rules_out' = IF fails THEN <<>> ELSE parse_markdown_to_rules(markdown_text)
        /\ response' = [status |-> IF fails THEN "raised" ELSE "ok",
                        exception |-> IF fails THEN "OSError" ELSE "",
                        failing |-> {}]
        /\ stdout' = IF fails THEN <<>>
                     ELSE <<[msg |-> "Total rules extracted", chunk |-> 0]>>
    /\ pc' = "lines_parsed"
    /\ UNCHANGED <<ChunksFrame, processed_chunks>>

\* EnhancedRuleParser.parse_with_preprocessing; the line parser fails on the
\* chunks of "failing"
parse_chunks ==
    /\ pc = "start"
    /\ \E failing \in SUBSET {c.chunk_id : c \in Range(preprocess_markdown(markdown_text))} :
        LET result == parse_with_preprocessing(markdown_text, failing)
        IN  /\ rules_out' = result.rules
            /\ processed_chunks' = result.chunks
            /\ stdout' = result.stdout
            /\ response' = [status |-> result.status, exception |-> result.exception,
                            failing |-> failing]
    /\ pc' = "chunks_parsed"
    /\ UNCHANGED ChunksFrame

\* the values offered to Rule(confidence_score=...): absent, below 0, in [0,1], above 1
ConfidenceInputs == {NONE, -50, 0, 85, 100, 150}

\* Field(None, ge=0.0, le=1.0)
ConfidenceFieldValid(conf) == conf = NONE \/ (0 <= conf /\ conf <= 100)

\* Rule(...) with every required field given and a confidence of ConfidenceInputs
construct_rule ==
    /\ pc = "start"
    /\ \E conf \in ConfidenceInputs :
        /\ rule' = IF ConfidenceFieldValid(conf)
                   THEN BasicRule(REQUIRED, <<>>, <<>>, <<>>, <<>>, <<>>, <<>>, conf)
                   ELSE NoRule
        /\ response' = [status |-> IF ConfidenceFieldValid(conf) THEN "ok" ELSE "raised",
                        exception |-> IF ConfidenceFieldValid(conf) THEN "" ELSE "ValidationError",
                        failing |-> {}, confidence_score |-> conf]
    /\ pc' = "constructed"
    /\ UNCHANGED <<Config, loaded_rules, request, rules_in, rules_out, markdown_text,
                   processed_chunks, stdout, heap, refs>>

NextChunks ==
    \/ preprocess
    \/ parse_lines
    \/ parse_chunks
    \/ parse_enhanced
    \/ evaluate_extracted
    \/ construct_rule

SpecChunks == InitChunks /\ [][NextChunks]_vars

----------------------------------------------------------------------------
(* Claims on the rules the parsers emit *)

HoldsCode(toks) == \E k \in 1..Len(toks) : toks[k] \in CptTokens

\* C14: every rule a parser returns carries at least one procedure code or
\* diagnosis code, and a text, or the chunks of a text, in which no line yields a
\* code produce no rule
C14_EmittedRulesCarryCodes ==
    /\ \A k \in 1..Len(rules_out) :
          Len(rules_out[k].cpt_codes) > 0 \/ Len(rules_out[k].icd_codes) > 0
    /\ (pc \in {"lines_parsed", "parsed"} /\ ~HoldsCode(markdown_text))
          => rules_out = <<>>
    /\ (pc = "chunks_parsed"
        /\ \A k \in 1..Len(processed_chunks) :
              ~HoldsCode(Flatten(processed_chunks[k].primary_content)))
          => rules_out = <<>>

\* a document of two chunks, of which one yields no code and the other a rule
C14_Witness ==
    /\ pc = "chunks_parsed"
    /\ response.status = "ok"
    /\ Len(rules_out) > 0
    /\ \E k \in 1..Len(processed_chunks) :
          /\ processed_chunks[k].content_type = "authorization_rule"
          /\ ~HoldsCode(Flatten(processed_chunks[k].primary_content))

----------------------------------------------------------------------------
(* The enhanced parser on texts that hold words of two capital letters *)

MaxGeoLen == 3

GeoVocabulary == {NL, PAE, DOT, "Alaska", "12345"} \cup TwoLetterWords

GeoTexts == UNION {[1..n -> GeoVocabulary] : n \in 0..MaxGeoLen}

InitGeo ==
    /\ use_enhanced_parser = TRUE
    /\ enable_enhanced_evaluation = TRUE
    /\ loaded_rules = <<>>
    /\ request = NoRequest
    /\ response = NoResponse
    /\ rule = NoRule
    /\ rules_in = <<>>
    /\ rules_out = <<>>
    /\ markdown_text \in GeoTexts
    /\ processed_chunks = <<>>
    /\ stdout = <<>>
    /\ heap = ModuleLists
    /\ refs = ModuleRefs
    /\ pc = "start"

SpecGeo == InitGeo /\ [][NextParse]_vars

\* C15: every state code in excluded_states, in included_states or in the state
\* list of a conditional-logic entry of an extracted rule is a code of the
\* canonical state and territory set
C15_StoredStatesAreCanonical ==
    pc = "parsed" =>
        \A k \in 1..Len(rules_out) :
            /\ Range(rules_out[k].excluded_states) \subseteq valid_states
            /\ Range(rules_out[k].included_states) \subseteq valid_states
            /\ \A j \in 1..Len(rules_out[k].conditional_logic) :
                  Range(rules_out[k].conditional_logic[j].state_not_in) \subseteq valid_states

----------------------------------------------------------------------------
(* Claims on confidence values *)

\* a fraction of the chunker lies in [0,1]
InUnitInterval(conf) == RatLeq(Rat(0, 1), conf) /\ RatLeq(conf, Rat(1, 1))

\* a confidence in hundredths lies in [0,1]
InHundredths(conf) == 0 <= conf /\ conf <= 100

\* C16: every confidence held lies in [0,1]: that of a chunk, that of a rule of the
\* line parser, of the enhanced parser and of the chunk parser after it took the
\* chunk's confidence, and that of an evaluation; Rule(...) with a confidence
\* outside [0,1] raises a ValidationError and builds no rule
C16_ConfidencesInUnitInterval ==
    /\ \A k \in 1..Len(processed_chunks) :
          InUnitInterval(processed_chunks[k].confidence_score)
    /\ pc = "chunks_parsed" =>
          \A k \in 1..Len(rules_out) : InUnitInterval(rules_out[k].confidence_score)
    /\ pc \in {"lines_parsed", "parsed", "evaluated"} =>
          \A k \in 1..Len(rules_out) : InHundredths(rules_out[k].confidence_score)
    /\ pc = "evaluated" => InHundredths(response.evaluation.confidence)
    /\ pc = "constructed" =>
          /\ response.status = "ok" <=>
                (response.confidence_score = NONE \/ InHundredths(response.confidence_score))
          /\ response.status = "raised" <=> rule = NoRule
          /\ response.status = "ok" => rule.confidence_score = response.confidence_score

\* a chunk whose confidence reached the cap 0.95 beside a rule that took the
\* confidence 0.825 of its chunk
C16_Witness ==
    /\ pc = "chunks_parsed"
    /\ \E k \in 1..Len(processed_chunks) :
          processed_chunks[k].confidence_score = Rat(95, 100)
    /\ \E k \in 1..Len(rules_out) : rules_out[k].confidence_score = Rat(33, 40)

----------------------------------------------------------------------------
(* Rule.to_hyperedge *)

MaxPage == 2

\* a Rule with the fields of to_hyperedge that BasicRule leaves out
ExportedRule(r, rule_id, source_page, source_line) ==
    r @@ [rule_id |-> rule_id, applicable_plans |-> <<>>, clinical_criteria |-> "",
          quantity_limits |-> NONE, effective_date |-> "",
          source_file |-> "uhc.pdf", source_page |-> source_page,
          source_line |-> source_line]

\* the rules exported: with and without rule_id, codes, states on either list
HyperedgeRules ==
    {ExportedRule(BasicRule(REQUIRED, "Orthopedics", "", cpts, icds, excl, incl, 80),
                  id, page, line) :
        cpts \in {<<"12345">>, <<"12345", "29826">>},
        icds \in {<<>>, <<"M75.100">>},
        excl \in {<<>>, <<"TX">>},
        incl \in {<<>>, <<"TX">>, <<"CA">>},
        id \in {"", "rule-1"},
        page \in 1..MaxPage,
        line \in {NONE, 1}}

\* Rule.to_hyperedge. The id built from payer, category and the first three codes
\* is held as the tuple of its parts.
to_hyperedge(r) ==
    [id |-> IF r.rule_id # "" THEN <<r.rule_id>>
            ELSE <<r.payer, r.category, SubSeq(r.cpt_codes, 1, Min({3, Len(r.cpt_codes)}))>>,
     type |-> "authorization_rule",
     auth_requirement |-> r.auth_requirement,
     nodes |-> [payer |-> r.payer, category |-> r.category, service |-> r.service,
                cpt_codes |-> r.cpt_codes, icd_codes |-> r.icd_codes,
                states |-> r.excluded_states \o r.included_states,
                plans |-> r.applicable_plans],
     properties |-> [clinical_criteria |-> r.clinical_criteria,
                     age_restrictions |-> r.age_restrictions,
                     quantity_limits |-> r.quantity_limits,
                     effective_date |-> r.effective_date,
                     source |-> [file |-> r.source_file, page |-> r.source_page,
                                 line |-> r.source_line]]]

InitHyperedge ==
    /\ use_enhanced_parser = FALSE
    /\ enable_enhanced_evaluation = FALSE
    /\ loaded_rules = <<>>
    /\ request = NoRequest
    /\ response = NoResponse
    /\ rule \in HyperedgeRules
    /\ rules_in = <<>>
    /\ rules_out = <<>>
    /\ markdown_text = <<>>
    /\ processed_chunks = <<>>
    /\ stdout = <<>>
    /\ heap = ModuleLists
    /\ refs = ModuleRefs
    /\ pc = "start"

export_hyperedge ==
    /\ pc = "start"
    /\ response' = [status |-> "ok", hyperedge |-> to_hyperedge(rule)]
    /\ pc' = "exported"
    /\ UNCHANGED <<Config, loaded_rules, request, rule, rules_in, rules_out, markdown_text,
                   processed_chunks, stdout, heap, refs>>

NextHyperedge == export_hyperedge

SpecHyperedge == InitHyperedge /\ [][NextHyperedge]_vars

\* C17: the hyperedge of a rule gives back the rule's procedure codes, diagnosis
\* codes, excluded states, source file, source page and source line: every rule
\* with the same hyperedge has the same values in these six fields
C17_HyperedgeRecoversFields ==
    pc = "exported" =>
        \A other \in HyperedgeRules :
            to_hyperedge(other) = response.hyperedge =>
                /\ other.cpt_codes = rule.cpt_codes
                /\ other.icd_codes = rule.icd_codes
                /\ other.excluded_states = rule.excluded_states
                /\ other.source_file = rule.source_file
                /\ other.source_page = rule.source_page
                /\ other.source_line = rule.source_line

----------------------------------------------------------------------------
(* Claims on failures of the chunk parser *)

RuleGenerating(chunk) == chunk.content_type \in {"authorization_rule", "procedure_list"}

\* the rule r is among the rules returned, up to the states that
\* _apply_geographic_exceptions adds
Returned(r) ==
    \E k \in 1..Len(rules_out) :
        /\ rules_out[k].cpt_codes = r.cpt_codes
        /\ rules_out[k].auth_requirement = r.auth_requirement
        /\ rules_out[k].service = r.service
        /\ rules_out[k].confidence_score = r.confidence_score

\* C18: when the line parser fails on some chunks, parse_with_preprocessing still
\* returns, and its rules hold the rules of every chunk on which it did not fail
C18_ChunkFailureIsIsolated ==
    pc = "chunks_parsed" =>
        /\ response.status = "ok"
        /\ \A k \in 1..Len(processed_chunks) :
              (RuleGenerating(processed_chunks[k]) /\ k \notin response.failing) =>
                  LET own == _extract_from_chunk(processed_chunks[k], FALSE).rules
                  IN  \A j \in 1..Len(own) : Returned(own[j])

\* the chunk contributes no rule to the rules parse_with_preprocessing returns
ContributesNoRule(k) ==
    \/ ~RuleGenerating(processed_chunks[k])
    \/ _extract_from_chunk(processed_chunks[k], k \in response.failing).rules = <<>>

\* the messages of parse_with_preprocessing that report a chunk by name
ChunkMessages ==
    {"Chunk rules", "Existing parser failed on chunk",
     "No CPT codes in hints for chunk", "Applied geographic exceptions"}

\* C19: when parse_with_preprocessing returns, every chunk that contributed no
\* rule has an entry naming it among the messages produced with the rules
C19_DroppedChunksHaveWarnings ==
    (pc = "chunks_parsed" /\ response.status = "ok") =>
        \A k \in 1..Len(processed_chunks) :
            ContributesNoRule(k) =>
                \E j \in 1..Len(stdout) :
                    /\ stdout[j].msg \in ChunkMessages
                    /\ stdout[j].chunk = k

\* C20: when no qualifier of the rule applies, the evaluation carries the rule's
\* own requirement and the rule's stored confidence_score, whatever value in
\* [0, 1] is stored; 0.7 stands in only for a rule without a stored confidence
C20_BaseConfidenceIsStoredConfidence ==
    (/\ pc = "evaluated"
     /\ ~GeographicExclusionApplies(rule, request)
     /\ ~DiagnosisExemptionApplies(rule, request)
     /\ PosMatches(rule, request) = {}
     /\ AgeMatches(rule, request) = {})
    => /\ response.evaluation.auth_required = (rule.auth_requirement = REQUIRED)
       /\ response.evaluation.confidence =
            IF rule.confidence_score = NONE THEN 70 ELSE rule.confidence_score

\* the product of two fractions, in lowest terms
RatMul(a, b) == Rat(a.num * b.num, a.den * b.den)

\* C21: when the line parser raises on a chunk, _extract_from_chunk returns one
\* rule made from the hints, with the hint codes and 0.6 times the chunk's
\* confidence, if the hints hold a code, and no rule if they hold none
C21_HintFallbackBuildsMinimalRule ==
    pc = "chunks_parsed" =>
        LET chunks == preprocess_markdown(markdown_text)
        IN  \A k \in 1..Len(chunks) :
                (RuleGenerating(chunks[k]) /\ chunks[k].chunk_id \in response.failing) =>
                    LET r == _extract_from_chunk(chunks[k], TRUE)
                        hints == chunks[k].extraction_hints
                    IN  /\ ~r.raised
                        /\ IF Len(hints.cpt_codes) = 0 THEN r.rules = <<>>
                           ELSE /\ Len(r.rules) = 1
                                /\ r.rules[1].cpt_codes = hints.cpt_codes
                                /\ r.rules[1].confidence_score =
                                       RatMul(chunks[k].confidence_score, Rat(6, 10))

----------------------------------------------------------------------------
(* SpecAuth: both parsers on one line of keyword words that ends with a code *)

MaxAuthLen == 4

AuthTexts ==
    {words \o <<"12345">> : words \in UNION {[1..n -> KeywordWords] : n \in 0..MaxAuthLen}}

InitAuth ==
    /\ use_enhanced_parser = TRUE
    /\ enable_enhanced_evaluation = TRUE
    /\ loaded_rules = <<>>
    /\ request = NoRequest
    /\ response = NoResponse
    /\ rule = NoRule
    /\ rules_in = <<>>
    /\ rules_out = <<>>
    /\ markdown_text \in AuthTexts
    /\ processed_chunks = <<>>
    /\ stdout = <<>>
    /\ heap = ModuleLists
    /\ refs = ModuleRefs
    /\ pc = "start"

NextAuth == parse_lines \/ parse_enhanced

SpecAuth == InitAuth /\ [][NextAuth]_vars

\* a keyword of the family stands in the text, whatever the case of either
FamilyMatches(family, text) ==
    \E keyword \in family : Occurs(LineLower(keyword), LineLower(text))

\* the requirement by the order required, not required, notification only
FirstFamily(required, not_required, notification_only, text) ==
    IF FamilyMatches(required, text) THEN REQUIRED
    ELSE IF FamilyMatches(not_required, text) THEN NOT_REQUIRED
    ELSE IF FamilyMatches(notification_only, text) THEN NOTIFICATION_ONLY
    ELSE CONDITIONAL

\* C22: the requirement of every extracted rule is that of the first keyword
\* family, in the order required, not required, notification only, of which a
\* keyword stands in the text, and Conditional when none does
C22_FirstMatchingFamilyDecides ==
    /\ (pc = "lines_parsed" /\ response.status = "ok") =>
          \A k \in 1..Len(rules_out) :
              rules_out[k].auth_requirement =
                  FirstFamily(auth_required_keywords, auth_not_required_keywords,
                              notification_keywords, markdown_text)
    /\ pc = "parsed" =>
          \A k \in 1..Len(rules_out) :
              rules_out[k].auth_requirement =
                  FirstFamily(auth_patterns.required, auth_patterns.not_required,
                              auth_patterns.notification_only, markdown_text)

----------------------------------------------------------------------------
(* SpecClassify: the classification of a section from its four match counts. *)
(* A count is the number of patterns of its list that the section matches.   *)

AuthPatterns == 7
ExceptionPatterns == 7
CptPatterns == 6
GeographicPatterns == 5

MatchCounts ==
    [auth_matches : 0..AuthPatterns, exception_matches : 0..ExceptionPatterns,
     cpt_matches : 0..CptPatterns, geo_matches : 0..GeographicPatterns]

InitClassify ==
    /\ use_enhanced_parser = TRUE
    /\ enable_enhanced_evaluation = TRUE
    /\ loaded_rules = <<>>
    /\ request \in MatchCounts
    /\ response = NoResponse
    /\ rule = NoRule
    /\ rules_in = <<>>
    /\ rules_out = <<>>
    /\ markdown_text = <<>>
    /\ processed_chunks = <<>>
    /\ stdout = <<>>
    /\ heap = ModuleLists
    /\ refs = ModuleRefs
    /\ pc = "start"

classify ==
    /\ pc = "start"
    /\ LET c == classify_matches(request.auth_matches, request.exception_matches,
                                 request.cpt_matches, request.geo_matches)
       IN  response' = [status |-> "ok", content_type |-> c.content_type,
                        confidence |-> c.confidence]
    /\ pc' = "classified"
    /\ UNCHANGED <<Config, loaded_rules, request, rule, rules_in, rules_out,
                   markdown_text, processed_chunks, stdout, heap, refs>>

NextClassify == classify

SpecClassify == InitClassify /\ [][NextClassify]_vars

\* the fixed order of the types
TypeOrder ==
    <<"authorization_rule", "geographic_exception", "procedure_list", "context_info">>

\* the score of a type for the counts of the request
TypeScore(type) ==
    CASE type = "authorization_rule" -> 2 * request.auth_matches + request.cpt_matches
      [] type = "geographic_exception" ->
            2 * request.exception_matches + request.geo_matches
      [] type = "procedure_list" -> 2 * request.cpt_matches
      [] type = "context_info" -> 1

\* C23: the selected type has the highest of the four scores, and every type
\* before it in the order authorization_rule, geographic_exception,
\* procedure_list, context_info has a strictly lower score
C23_HighestScoreFirstInOrderWins ==
    pc = "classified" =>
        \E i \in 1..4 :
            /\ response.content_type = TypeOrder[i]
            /\ \A j \in 1..4 : TypeScore(TypeOrder[j]) <= TypeScore(TypeOrder[i])
            /\ \A j \in 1..(i - 1) : TypeScore(TypeOrder[j]) < TypeScore(TypeOrder[i])

\* "CPT code 12345 PA required": authorization_rule and procedure_list both
\* score 4, and authorization_rule is selected
C23_Witness ==
    /\ pc = "classified"
    /\ request = [auth_matches |-> 1, exception_matches |-> 0,
                  cpt_matches |-> 2, geo_matches |-> 1]
    /\ TypeScore("authorization_rule") = TypeScore("procedure_list")
    /\ response.content_type = "authorization_rule"

\* the highest of the four scores, and their sum
ArgmaxScore == Max({TypeScore(TypeOrder[i]) : i \in 1..4})

TotalScore ==
    TypeScore(TypeOrder[1]) + TypeScore(TypeOrder[2]) + TypeScore(TypeOrder[3])
    + TypeScore(TypeOrder[4])

\* min(argmaxScore / totalScore, 0.95), raised by 0.2 up to 0.95 when the
\* highest score is 3 or more
RatioConfidence ==
    LET ratio == RatMin(Rat(ArgmaxScore, TotalScore), Rat(95, 100))
    IN  IF ArgmaxScore >= 3 THEN RatMin(RatAdd(ratio, Rat(20, 100)), Rat(95, 100))
        ELSE ratio

\* C24 as stated: for every combination of match counts the confidence is
\* min(argmaxScore / totalScore, 0.95), raised by 0.2 up to 0.95 when
\* argmaxScore >= 3
C24_ConfidenceIsCappedRatio ==
    pc = "classified" => response.confidence = RatioConfidence

\* C24 amended: the confidence is that ratio whenever some pattern matches; a
\* section that matches no pattern (the total is the floor of 1 alone) has the
\* confidence 0.5
C24_ConfidenceIsCappedRatioOrDefault ==
    pc = "classified" =>
        response.confidence = IF TotalScore > 1 THEN RatioConfidence ELSE Rat(50, 100)

\* no pattern matches: context_info with confidence 0.5
C24_Witness ==
    /\ pc = "classified"
    /\ TotalScore = 1
    /\ response.content_type = "context_info"
    /\ response.confidence = Rat(1, 2)

----------------------------------------------------------------------------
(* SpecScope: both parsers on one line of scope phrases, states and codes *)

MaxScopeLen == 4

ScopeVocabulary == {PAE, EXC, "in", ONLY_IN, LIMITED_TO, "TX", "12345"}

ScopeTexts == UNION {[1..n -> ScopeVocabulary] : n \in 0..MaxScopeLen}

InitScope ==
    /\ use_enhanced_parser = TRUE
    /\ enable_enhanced_evaluation = TRUE
    /\ loaded_rules = <<>>
    /\ request = NoRequest
    /\ response = NoResponse
    /\ rule = NoRule
    /\ rules_in = <<>>
    /\ rules_out = <<>>
    /\ markdown_text \in ScopeTexts
    /\ processed_chunks = <<>>
    /\ stdout = <<>>
    /\ heap = ModuleLists
    /\ refs = ModuleRefs
    /\ pc = "start"

SpecScope == InitScope /\ [][NextAuth]_vars

\* the text holds TX right after an excluding phrase ("... except", "excluding",
\* either followed by "in" or not), or right after "only in" or "limited to"
ExcludingIntroducesTX ==
    \E i \in 1..Len(markdown_text) :
        /\ markdown_text[i] \in {PAE, EXC}
        /\ \/ (i + 1 <= Len(markdown_text) /\ markdown_text[i + 1] = "TX")
           \/ /\ i + 2 <= Len(markdown_text)
              /\ markdown_text[i + 1] = "in"
              /\ markdown_text[i + 2] = "TX"

OnlyIntroducesTX ==
    \E i \in 1..(Len(markdown_text) - 1) :
        markdown_text[i] \in {ONLY_IN, LIMITED_TO} /\ markdown_text[i + 1] = "TX"

HoldsPhrase(phrases) == \E i \in 1..Len(markdown_text) : markdown_text[i] \in phrases

ParsersReturned == (pc = "lines_parsed" /\ response.status = "ok") \/ pc = "parsed"

\* C25: in every rule of a text whose only scope phrase is an excluding one that
\* introduces TX, TX is in excluded_states; in every rule of a text whose only
\* scope phrase is "only in" or "limited to" introducing TX, TX is in
\* included_states and not in excluded_states
C25_ScopePhraseBindsStateList ==
    ParsersReturned =>
        \A k \in 1..Len(rules_out) :
            /\ (ExcludingIntroducesTX /\ ~HoldsPhrase({ONLY_IN, LIMITED_TO})) =>
                   InList("TX", rules_out[k].excluded_states)
            /\ (OnlyIntroducesTX /\ ~HoldsPhrase({PAE, EXC})) =>
                   /\ InList("TX", rules_out[k].included_states)
                   /\ ~InList("TX", rules_out[k].excluded_states)

\* C26: the hierarchy of a section opened by a header ends with that header, and
\* every entry before it is an earlier header of a strictly smaller level,
\* whatever levels the headers of the document have
C26_HierarchyHoldsOnlyAncestors ==
    pc = "chunked" =>
        \A k \in 1..Len(processed_chunks) :
            LET hierarchy == processed_chunks[k].section_hierarchy
                last == hierarchy[Len(hierarchy)]
            IN  IsHeader(last) =>
                    \A j \in 1..(Len(hierarchy) - 1) :
                        IsHeader(hierarchy[j]) /\ Level(hierarchy[j]) < Level(last)

\* C27: whatever rules the startup load and the uploads have put in the list,
\* basic and enhanced rules mixed in any order, the loader's
\* evaluate_authorization answers every request that holds a code with a
\* decision and never raises
C27_LoaderEvaluationNeverFails ==
    (/\ pc = "ready"
     /\ response.status # "none"
     /\ response.endpoint = "dual_loader"
     /\ Len(request.cpt_codes) > 0)
    => response.status = "ok"

----------------------------------------------------------------------------
(* SpecOrder: the loader's evaluation of one request against a rule list and *)
(* against the same rules in another order. The order of the list is that of *)
(* the files found by glob at startup and of the uploads.                    *)

MaxOrderLen == 3

OrderRules ==
    {BasicRule(auth, "", "Extracted Rule", <<"12345">>, <<>>, <<>>, <<>>, 80) :
        auth \in {REQUIRED, CONDITIONAL}}
    \cup {[BasicRule(auth, "", "Extracted Rule", <<"12345">>, <<>>, excl, <<>>, 85)
             EXCEPT !.kind = "EnhancedRule"] :
             auth \in {REQUIRED, CONDITIONAL}, excl \in {<<>>, <<"TX">>}}

\* the lists that hold the rules of the list, each as often, in any order
Reordered(rules) ==
    {[i \in 1..Len(rules) |-> rules[f[i]]] : f \in Permutations(1..Len(rules))}

InitOrder ==
    /\ use_enhanced_parser = TRUE
    /\ enable_enhanced_evaluation \in BOOLEAN
    /\ loaded_rules \in UNION {[1..n -> OrderRules] : n \in 0..MaxOrderLen}
    /\ request \in {Query(<<"12345">>, {}, NONE, state, "") : state \in {"", "TX"}}
    /\ response = NoResponse
    /\ rule = NoRule
    /\ rules_in \in Reordered(loaded_rules)
    /\ rules_out = <<>>
    /\ markdown_text = <<>>
    /\ processed_chunks = <<>>
    /\ stdout = <<>>
    /\ heap = ModuleLists
    /\ refs = ModuleRefs
    /\ pc = "start"

\* dual_loader.evaluate_authorization with the rules in the order loaded_rules
evaluate_order ==
    /\ pc = "start"
    /\ response' = DualEvaluate(loaded_rules, enable_enhanced_evaluation, request)
    /\ pc' = "first"
    /\ UNCHANGED <<Config, loaded_rules, request, Unused>>

\* the same request with the rules in the order rules_in; both answers are kept
evaluate_reordered ==
    /\ pc = "first"
    /\ response' = [status |-> "ok", endpoint |-> "dual_loader", original |-> response,
                    reordered |-> DualEvaluate(rules_in, enable_enhanced_evaluation,
                                               request)]
    /\ pc' = "second"
    /\ UNCHANGED <<Config, loaded_rules, request, Unused>>

NextOrder == evaluate_order \/ evaluate_reordered

SpecOrder == InitOrder /\ [][NextOrder]_vars

\* C28: the loader's answer to a request has the same auth_required and the same
\* confidence for every order of the same loaded rules
C28_DecisionIgnoresRuleOrder ==
    pc = "second" =>
        /\ response.original.status = response.reordered.status
        /\ response.original.auth_required = response.reordered.auth_required
        /\ response.original.confidence = response.reordered.confidence

\* C28 for the lists the loader can evaluate at all: when neither order raises,
\* the two answers agree
C28_AnsweredDecisionIgnoresRuleOrder ==
    (/\ pc = "second"
     /\ response.original.status = "ok"
     /\ response.reordered.status = "ok")
    => /\ response.original.auth_required = response.reordered.auth_required
       /\ response.original.confidence = response.reordered.confidence

----------------------------------------------------------------------------
(* SpecCandidates: the selection of the rules that hold a code of the request, *)
(* by the loader and by RuleCollection, over rules that hold range tokens      *)

MaxCandidateRules == 2

\* a line "12345-12349" gives the rule both ends and the token; a stored rule can
\* hold the token alone
CandidateRules ==
    {BasicRule(auth, "", "Extracted Rule", cpts, <<>>, <<>>, <<>>, 80) :
        auth \in {REQUIRED, CONDITIONAL},
        cpts \in {<<"12345">>, <<RANGE_12345_12349>>,
                  <<"12345", "12349", RANGE_12345_12349>>, <<"29826">>}}

CandidateRequests ==
    {Query(cpts, {}, NONE, "", "") :
        cpts \in {<<"12345">>, <<"12347">>, <<"12349">>, <<"29826">>,
                  <<"12347", "29826">>}}

InitCandidates ==
    /\ use_enhanced_parser = FALSE
    /\ enable_enhanced_evaluation = TRUE
    /\ loaded_rules \in UNION {[1..n -> CandidateRules] : n \in 0..MaxCandidateRules}
    /\ request \in CandidateRequests
    /\ response = NoResponse
    /\ rule = NoRule
    /\ rules_in = <<>>
    /\ rules_out = <<>>
    /\ markdown_text = <<>>
    /\ processed_chunks = <<>>
    /\ stdout = <<>>
    /\ heap = ModuleLists
    /\ refs = ModuleRefs
    /\ pc = "start"

\* DualParserLoader.evaluate_authorization; rules_out is its applicable_rules
select_candidates ==
    /\ pc = "start"
    /\ rules_out' = Applicable(loaded_rules, request.cpt_codes)
    /\ response' = DualEvaluate(loaded_rules, enable_enhanced_evaluation, request)
    /\ pc' = "selected"
    /\ UNCHANGED <<Config, loaded_rules, request, rule, rules_in, markdown_text,
                   processed_chunks, stdout, heap, refs>>

\* RuleCollection.find_applicable_rules for the first code of the request
find_applicable_rules ==
    /\ pc = "start"
    /\ rules_out' = Applicable(loaded_rules, <<request.cpt_codes[1]>>)
    /\ request' = [request EXCEPT !.cpt_codes = <<request.cpt_codes[1]>>]
    /\ response' = [status |-> "ok", endpoint |-> "find_applicable_rules"]
    /\ pc' = "selected"
    /\ UNCHANGED <<Config, loaded_rules, rule, rules_in, markdown_text,
                   processed_chunks, stdout, heap, refs>>

NextCandidates == select_candidates \/ find_applicable_rules

SpecCandidates == InitCandidates /\ [][NextCandidates]_vars

\* the loaded rules of which some code is, as it stands, a code of the request
LiteralCandidates ==
    {i \in 1..Len(loaded_rules) :
        Range(loaded_rules[i].cpt_codes) \cap Range(request.cpt_codes) # {}}

\* C29: the selected rules are the loaded rules that hold a code of the request
\* as it stands, in the order of the list, and a rule whose only code is a range
\* token is never selected, not even for a code between the ends of the range
C29_CandidatesByLiteralMembership ==
    pc = "selected" =>
        /\ rules_out = SubSeqAt(loaded_rules, LiteralCandidates)
        /\ \A k \in 1..Len(rules_out) : rules_out[k].cpt_codes # <<RANGE_12345_12349>>

\* the request names 12347 and 29826, the first rule holds only the token of the
\* range 12345-12349 and the second holds 29826: the second alone is selected
C29_Witness ==
    /\ pc = "selected"
    /\ request.cpt_codes = <<"12347", "29826">>
    /\ Len(loaded_rules) = 2
    /\ loaded_rules[1].cpt_codes = <<RANGE_12345_12349>>
    /\ loaded_rules[2].cpt_codes = <<"29826">>
    /\ rules_out = <<loaded_rules[2]>>
    /\ response.status = "ok"
    /\ response.method = "basic"

----------------------------------------------------------------------------
(* SpecRemerge: merge_related_rules applied to the rules it returned, as the   *)
(* merging test does with the rules of parse_markdown_to_rules                 *)

MaxRemerge == 3

\* rules of two keys the line parser can hand to the merge: a code list with its
\* diagnosis codes and states, a confidence of 0.0, 0.5 or 0.8
RemergeRules ==
    {BasicRule(REQUIRED, "", service, x[1], x[2], x[3], x[4], conf) :
        service \in {"Arthroscopy", "Cardiology"},
        x \in {<<<<"12345">>, <<>>, <<>>, <<>>>>,
               <<<<"29826", "29826">>, <<"M75.100">>, <<"TX">>, <<>>>>,
               <<<<"12345", "29826">>, <<>>, <<>>, <<"CA">>>>},
        conf \in {0, 50, 80}}

InitRemerge ==
    /\ use_enhanced_parser = FALSE
    /\ enable_enhanced_evaluation = TRUE
    /\ loaded_rules = <<>>
    /\ request = NoRequest
    /\ response = NoResponse
    /\ rule = NoRule
    /\ rules_in \in UNION {[1..n -> RemergeRules] : n \in 0..MaxRemerge}
    /\ rules_out = <<>>
    /\ markdown_text = <<>>
    /\ processed_chunks = <<>>
    /\ stdout = <<>>
    /\ heap = ModuleLists
    /\ refs = ModuleRefs
    /\ pc = "start"

\* merged_rules = merge_related_rules(rules) on rules that were merged before
merge_again ==
    /\ pc = "merged"
    /\ response' = [status |-> "ok", endpoint |-> "merge_related_rules",
                    merged_rules |-> merge_related_rules(rules_out)]
    /\ pc' = "remerged"
    /\ UNCHANGED <<Config, loaded_rules, request, rule, rules_in, rules_out,
                   markdown_text, processed_chunks, stdout, heap, refs>>

NextRemerge == merge \/ merge_again

SpecRemerge == InitRemerge /\ [][NextRemerge]_vars

\* the two rules have one key, the same codes and states as sets and one confidence
SameMergedRule(a, b) ==
    /\ GroupingKey(a) = GroupingKey(b)
    /\ Range(a.cpt_codes) = Range(b.cpt_codes)
    /\ Range(a.icd_codes) = Range(b.icd_codes)
    /\ Range(a.excluded_states) = Range(b.excluded_states)
    /\ Range(a.included_states) = Range(b.included_states)
    /\ a.confidence_score = b.confidence_score

\* C30: merging the merged rules once more gives the same grouping keys, and for
\* each key the same sets of procedure codes, diagnosis codes and states and the
\* same confidence.
C30_MergeIsIdempotent ==
    pc = "remerged" =>
        /\ Len(response.merged_rules) = Len(rules_out)
        /\ \A k \in 1..Len(rules_out) :
               \E j \in 1..Len(response.merged_rules) :
                   SameMergedRule(rules_out[k], response.merged_rules[j])
        /\ \A j \in 1..Len(response.merged_rules) :
               \E k \in 1..Len(rules_out) :
                   SameMergedRule(rules_out[k], response.merged_rules[j])

\* three rules of one key became one rule with the codes of all and the least
\* confidence, and the second merge returned that rule
C30_Witness ==
    /\ pc = "remerged"
    /\ Len(rules_in) = 3
    /\ Len(rules_out) = 1
    /\ Range(rules_out[1].cpt_codes) = {"12345", "29826"}
    /\ rules_in[1].confidence_score = 80
    /\ rules_out[1].confidence_score = 50
    /\ Len(response.merged_rules) = 1
    /\ SameMergedRule(rules_out[1], response.merged_rules[1])

====
